---- MODULE Spec2Model ----
(***************************************************************************)
(* Delhi street food recommender: the knowledge-document loader            *)
(* (context_loader.py), the prompt builder (prompt_builder.py), the Kiro   *)
(* gateway with its retry loop, response cache and parser (kiro_client.py) *)
(* and the orchestrating engine (recommendation_engine.py).                *)
(*                                                                         *)
(* Text is a sequence of tokens.  A token is a one-character string, or a  *)
(* longer string standing for a fixed piece of text of the program (a      *)
(* literal such as "Momos" or "Error: ").  The empty text is <<>>.         *)
(***************************************************************************)
EXTENDS Integers, Sequences, FiniteSets, TLC

\* ------------------------------------------------------------------------
\* Bounds of the model
\* ------------------------------------------------------------------------
\* entries the response cache may hold in the pipeline's runs
MaxCache == 1

\* the latest modification time the document's file takes
MaxTime == 2

\* the longest area string the resolution is tried on
MaxLen == 3

\* ------------------------------------------------------------------------
\* Python values and text
\* ------------------------------------------------------------------------
\* JSON null / Python None, a non-text truthy value (a number), and the
\* marker of a key that is absent from a JSON object.
None == <<"<None>">>
Number == <<"<5>">>
Absent == <<"<absent>">>

IsStr(v) == v # None /\ v # Number /\ v # Absent

\* Python truthiness of a value: None and the empty string are falsy.
Truthy(v) == v # None /\ v # <<>>

\* x or d
PyOr(v, d) == IF Truthy(v) THEN v ELSE d

\* dict.get(key, default): the default only replaces an absent key.
DictGet(v, d) == IF v = Absent THEN d ELSE v

\* str.lower() on one character.
LowerChar(c) ==
    CASE c = "B" -> "b"
      [] c = "C" -> "c"
      [] c = "K" -> "k"
      [] c = "P" -> "p"
      [] c = "Z" -> "z"
      [] c = "Evening" -> "evening"
      [] c = "Morning" -> "morning"
      [] c = "Budget-friendly" -> "budget-friendly"
      [] OTHER -> c

Lower(s) == [i \in 1..Len(s) |-> LowerChar(s[i])]

IsSpace(c) == c = " " \/ c = "\n"

RECURSIVE LStrip(_)
LStrip(s) == IF s # <<>> /\ IsSpace(Head(s)) THEN LStrip(Tail(s)) ELSE s

RECURSIVE RStrip(_)
RStrip(s) ==
    IF s # <<>> /\ IsSpace(s[Len(s)]) THEN RStrip(SubSeq(s, 1, Len(s) - 1)) ELSE s

\* str.strip()
Strip(s) == RStrip(LStrip(s))

\* a in b, for strings
IsSubstr(a, b) ==
    \E i \in 0..(Len(b) - Len(a)) : SubSeq(b, i + 1, i + Len(a)) = a

\* Code point of a character, for the ordering sorted() uses.
Ord(c) ==
    CASE c = "\n" -> 10
      [] c = " " -> 32
      [] c = "B" -> 66
      [] c = "C" -> 67
      [] c = "G" -> 71
      [] c = "K" -> 75
      [] c = "L" -> 76
      [] c = "P" -> 80
      [] c = "Z" -> 90
      [] c = "b" -> 98
      [] c = "c" -> 99
      [] c = "k" -> 107
      [] c = "m" -> 109
      [] c = "n" -> 110
      [] c = "p" -> 112
      [] c = "z" -> 122
      [] OTHER -> 200

RECURSIVE StrLess(_, _)
StrLess(a, b) ==
    IF b = <<>> THEN FALSE
    ELSE IF a = <<>> THEN TRUE
    ELSE IF Ord(Head(a)) # Ord(Head(b)) THEN Ord(Head(a)) < Ord(Head(b))
    ELSE StrLess(Tail(a), Tail(b))

\* sorted(list(set(xs)))
RECURSIVE SortedSet(_)
SortedSet(S) ==
    IF S = {} THEN <<>>
    ELSE LET m == CHOOSE x \in S : \A y \in S \ {x} : StrLess(x, y)
         IN <<m>> \o SortedSet(S \ {m})

Range(s) == {s[i] : i \in 1..Len(s)}

\* "sep".join(parts)
RECURSIVE Join(_, _)
Join(sep, parts) ==
    IF parts = <<>> THEN <<>>
    ELSE IF Len(parts) = 1 THEN parts[1]
    ELSE parts[1] \o sep \o Join(sep, Tail(parts))

\* ------------------------------------------------------------------------
\* The knowledge document (product.md)
\* ------------------------------------------------------------------------
\* A line of the document, by the shape the loader's patterns see:
\*   "h3"       ### <text>
\*   "food"     - **<text>**: <detail> [₹price]
\*   "bold"     **<text>**: ...
\*   "h2g"      ## Response Guidelines
\*   "h2"       ## <another heading>
\*   "bullet"   - <text>
\*   "arealine" Area: <text>
\*   "blank"    white space only
Line(kind, text, price) == [kind |-> kind, text |-> text, price |-> price]

Cp == <<"C", "p">>
Kb == <<"K", "b">>
Momo == <<"m">>

DocGood ==
    << Line("h3", Cp, <<>>),
       Line("food", Momo, <<"₹70-90">>),
       Line("h3", Kb, <<>>),
       Line("h2g", <<>>, <<>>),
       Line("bullet", <<"g">>, <<>>) >>

\* the same knowledge with a line of prose that begins "Area:"
DocAreaLine ==
    << Line("arealine", Kb, <<>>),
       Line("h3", Cp, <<>>),
       Line("food", Momo, <<>>),
       Line("h2g", <<>>, <<>>),
       Line("bullet", <<"g">>, <<>>) >>

\* no guidelines section
DocNoGuide ==
    << Line("h3", Cp, <<>>),
       Line("food", Momo, <<"₹70-90">>) >>

DocBlank == << Line("blank", <<>>, <<>>) >>

FileContents == {DocGood, DocAreaLine, DocNoGuide, DocBlank}

\* areas named by bold labels alone, no area header
DocBold ==
    << Line("bold", Kb, <<>>),
       Line("h2g", <<>>, <<>>),
       Line("bullet", <<"g">>, <<>>) >>

\* area headers out of order, one of them twice and once padded
DocUnsorted ==
    << Line("h3", Kb, <<>>),
       Line("food", Momo, <<>>),
       Line("h3", Cp, <<>>),
       Line("h3", Kb \o <<" ">>, <<>>),
       Line("bold", Cp, <<>>),
       Line("h2g", <<>>, <<>>),
       Line("bullet", <<"g">>, <<>>) >>

\* headers and guidelines but no text an area could be read from
DocNoArea ==
    << Line("h3", <<" ">>, <<>>),
       Line("h2g", <<>>, <<>>),
       Line("bullet", <<"g">>, <<>>) >>

\* areas that contain one another and differ in case alone
DocNested ==
    << Line("h3", <<"K">>, <<>>),
       Line("h3", Kb, <<>>),
       Line("h3", <<"k", "b">>, <<>>),
       Line("h2g", <<>>, <<>>),
       Line("bullet", <<"g">>, <<>>) >>

\* four foods listed under one area, none under the other
DocFoods ==
    << Line("h3", Cp, <<>>),
       Line("food", <<"m">>, <<"₹70-90">>),
       Line("food", <<"k">>, <<>>),
       Line("food", <<"z">>, <<"₹20">>),
       Line("food", <<"p">>, <<>>),
       Line("h3", Kb, <<>>),
       Line("h2g", <<>>, <<>>),
       Line("bullet", <<"g">>, <<>>) >>

LoaderContents == FileContents \cup {DocBold, DocUnsorted, DocNoArea}

\* the areas in the order the two patterns find them, unsorted, repeats kept
RECURSIVE AreasFound(_, _)
AreasFound(content, kinds) ==
    IF content = <<>> THEN <<>>
    ELSE (IF Head(content).kind \in kinds /\ Strip(Head(content).text) # <<>>
          THEN <<Strip(Head(content).text)>> ELSE <<>>)
         \o AreasFound(Tail(content), kinds)

\* the extraction returning its matches as found
ExtractAreasUnsorted(content) ==
    AreasFound(content, {"h3"}) \o AreasFound(content, {"food", "bold"})

\* re.findall(r'### ([^#\n]+)') then the bold-label pattern, merged
ExtractAreas(content) ==
    LET heads == {Strip(content[i].text) : i \in {j \in 1..Len(content) : content[j].kind = "h3"}}
        bolds == {Strip(content[i].text) :
                    i \in {j \in 1..Len(content) : content[j].kind \in {"food", "bold"}}}
    IN SortedSet({a \in heads \cup bolds : a # <<>>})

\* the area header most recently preceding line i, or None
RECURSIVE CurrentArea(_, _)
CurrentArea(content, i) ==
    IF i = 0 THEN None
    ELSE IF content[i].kind = "h3" THEN Strip(content[i].text)
    ELSE CurrentArea(content, i - 1)

Food(line) ==
    [name |-> Strip(line.text),
     details |-> <<"details of ">> \o Strip(line.text),
     price |-> IF line.price # <<>> THEN line.price ELSE <<"Price varies">>]

\* the entries a walk over lines 1..n has appended under `area`
RECURSIVE FoodsOf(_, _, _)
FoodsOf(content, area, n) ==
    IF n = 0 THEN <<>>
    ELSE FoodsOf(content, area, n - 1) \o
         (IF content[n].kind = "food" /\ CurrentArea(content, n) = area
          THEN <<Food(content[n])>> ELSE <<>>)

\* food_options: its keys are the area headers seen
FoodKeys(content) ==
    {Strip(content[i].text) : i \in {j \in 1..Len(content) : content[j].kind = "h3"}}

\* bullets between "## Response Guidelines" and the next heading
RECURSIVE GuidelinesFrom(_, _)
GuidelinesFrom(content, i) ==
    IF i > Len(content) \/ content[i].kind \in {"h2", "h2g", "h3"} THEN <<>>
    ELSE (IF content[i].kind \in {"bullet", "food"} THEN <<content[i].text>> ELSE <<>>)
         \o GuidelinesFrom(content, i + 1)

ExtractGuidelines(content) ==
    LET gs == {i \in 1..Len(content) : content[i].kind = "h2g"}
    IN IF gs = {} THEN <<>>
       ELSE GuidelinesFrom(content, (CHOOSE i \in gs : \A j \in gs : i <= j) + 1)

\* content.strip() == ""
IsBlank(content) == \A i \in 1..Len(content) : content[i].kind = "blank"

\* _validate_context: the message it raises, or <<>> when the context passes
ValidateContext(content) ==
    IF ExtractAreas(content) = <<>> THEN <<"Missing required context field: areas">>
    ELSE IF FoodKeys(content) = {} THEN <<"Missing required context field: food_options">>
    ELSE IF ExtractGuidelines(content) = <<>>
         THEN <<"Missing required context field: response_guidelines">>
    ELSE <<>>

\* The loaded context.  `raw` is the document's lines; the structured fields
\* are the extractions above.
Context(content) ==
    [raw |-> content,
     areas |-> ExtractAreas(content),
     guidelines |-> ExtractGuidelines(content)]

NoContext == [raw |-> <<>>, areas |-> <<>>, guidelines |-> <<>>]

\* context['food_options'].get(area, [])
FoodOptions(context, area) ==
    IF area \in FoodKeys(context.raw) THEN FoodsOf(context.raw, area, Len(context.raw)) ELSE <<>>

Ok(v) == [raised |-> FALSE, val |-> v, msg |-> <<>>]
Raise(m) == [raised |-> TRUE, val |-> <<>>, msg |-> m]

\* _parse_context_file
ParseContextFile(content) ==
    IF IsBlank(content)
    THEN Raise(<<"Error parsing context file: ", "Product context file is empty">>)
    ELSE IF ValidateContext(content) # <<>>
    THEN Raise(<<"Error parsing context file: ">> \o ValidateContext(content))
    ELSE Ok(Context(content))

\* ------------------------------------------------------------------------
\* prompt_builder.py
\* ------------------------------------------------------------------------
UserQuery(area, time_preference, food_preferences, budget_category) ==
    [area |-> area, time_preference |-> time_preference,
     food_preferences |-> food_preferences, budget_category |-> budget_category]

\* "{}".format(v)
Fmt(v) == IF v = None THEN <<"None">> ELSE IF v = Number THEN <<"5">> ELSE v

\* the text of one document line, as it stands in raw_content
RenderLine(l) ==
    CASE l.kind = "h3" -> <<"### ">> \o l.text
      [] l.kind = "food" -> <<"- **">> \o l.text \o <<"**: ">> \o l.price
      [] l.kind = "bold" -> <<"**">> \o l.text \o <<"**: ">>
      [] l.kind = "h2g" -> <<"## Response Guidelines">>
      [] l.kind = "h2" -> <<"## ">> \o l.text
      [] l.kind = "bullet" -> <<"- ">> \o l.text
      [] l.kind = "arealine" -> <<"Area:", " ">> \o l.text
      [] OTHER -> <<" ">>

RawContent(content) == Join(<<"\n">>, [i \in 1..Len(content) |-> RenderLine(content[i])])

BuildSystemSection == <<"SYSTEM INSTRUCTIONS:", "\n", "<system instructions>">>

BuildContextSection(context) ==
    LET parts ==
          << <<"=== COMPLETE LOCAL KNOWLEDGE BASE ===">>, RawContent(context.raw),
             <<"\n", "=== QUICK REFERENCE ===">> >>
          \o (IF context.areas # <<>>
              THEN << <<"Available Areas: ">> \o Join(<<", ">>, context.areas) >> ELSE <<>>)
          \o (IF context.guidelines # <<>>
              THEN << <<"Response Guidelines:">> >>
                   \o [i \in 1..Len(context.guidelines) |-> <<"- ">> \o context.guidelines[i]]
              ELSE <<>>)
    IN <<"CONTEXT:", "\n">> \o Join(<<"\n">>, parts)

\* Ok(text), or the AttributeError of .lower() on a value that is no string
CreateNaturalQuery(q) ==
    IF (Truthy(q.area) /\ Truthy(q.time_preference) /\ ~IsStr(q.time_preference))
       \/ (Truthy(q.budget_category) /\ ~IsStr(q.budget_category))
    THEN Raise(<<"'int' object has no attribute 'lower'">>)
    ELSE LET p1 == IF Truthy(q.area) /\ Truthy(q.time_preference)
                   THEN << <<"Street food recommendations for ">> \o Fmt(q.area)
                           \o <<" during ">> \o Lower(q.time_preference) >>
                   ELSE IF Truthy(q.area)
                   THEN << <<"Street food recommendations for ">> \o Fmt(q.area) >>
                   ELSE <<>>
             p2 == IF Truthy(q.food_preferences)
                   THEN << <<"looking for ">> \o Fmt(q.food_preferences) >> ELSE <<>>
             p3 == IF Truthy(q.budget_category)
                   THEN << <<"with ">> \o Lower(q.budget_category) \o <<" budget">> >> ELSE <<>>
             parts == p1 \o p2 \o p3
         IN Ok(IF parts # <<>> THEN Join(<<", ">>, parts)
               ELSE <<"General street food recommendations">>)

BuildUserQuerySection(q) ==
    LET nq == CreateNaturalQuery(q)
    IN IF nq.raised THEN nq
       ELSE Ok(Join(<<"\n">>,
                 << <<"USER QUERY:">>,
                    <<"Area:", " ">> \o Fmt(q.area),
                    <<"Time: ">> \o Fmt(q.time_preference),
                    <<"Food Preferences: ">> \o Fmt(q.food_preferences),
                    <<"Budget: ">> \o Fmt(q.budget_category),
                    <<"Natural Query: ">> \o nq.val >>))

BuildResponseFormatSection == <<"RESPONSE FORMAT:", "\n", "<response format>">>

\* _validate_inputs: the message it raises, or <<>>
ValidateInputs(context, q) ==
    IF context = [raw |-> <<>>, areas |-> <<>>, guidelines |-> <<>>]
    THEN <<"Context cannot be empty">>
    ELSE IF ~Truthy(q.area) THEN <<"User query must include an area">>
    ELSE <<>>

BuildPrompt(context, q) ==
    IF ValidateInputs(context, q) # <<>>
    THEN Raise(<<"Error building prompt: ">> \o ValidateInputs(context, q))
    ELSE LET uq == BuildUserQuerySection(q)
         IN IF uq.raised THEN Raise(<<"Error building prompt: ">> \o uq.msg)
            ELSE Ok(Join(<<"\n", "\n">>,
                      <<BuildSystemSection, BuildContextSection(context), uq.val,
                        BuildResponseFormatSection>>))

\* ------------------------------------------------------------------------
\* kiro_client.py: data
\* ------------------------------------------------------------------------
FoodRecommendation(food_name, location, price_range, crowd_info, local_tip, hygiene_rating) ==
    [food_name |-> food_name, location |-> location, price_range |-> price_range,
     crowd_info |-> crowd_info, local_tip |-> local_tip, hygiene_rating |-> hygiene_rating]

RecommendationResponse(area, recommendations, alternative_areas, local_context) ==
    [area |-> area, recommendations |-> recommendations,
     alternative_areas |-> alternative_areas, local_context |-> local_context]

\* self.max_retries, self.retry_delay
max_retries == 3
retry_delay == 1

\* A reply body as the service sends it.  `lead` and `trail` are the tokens
\* around the JSON text (white space, code fences); `kind` tells what the
\* text between them is: "object", "array" (valid JSON, no object) or
\* "garbage" (no JSON).  In an object, a key that is missing holds Absent.
\* An entry of `recommendations` is an object (isobj) or some other value.
Entry(isobj, food_name, location, price_range, crowd_info, local_tip, hygiene_rating) ==
    [isobj |-> isobj, food_name |-> food_name, location |-> location,
     price_range |-> price_range, crowd_info |-> crowd_info, local_tip |-> local_tip,
     hygiene_rating |-> hygiene_rating]

\* recs: [kind |-> "list" | "absent" | "null", items |-> entries]
\* alts: [present |-> BOOLEAN, items |-> areas]
JsonData(area, recs, alts, local_context) ==
    [area |-> area, recommendations |-> recs, alternative_areas |-> alts,
     local_context |-> local_context]

NoData == JsonData(Absent, [kind |-> "absent", items |-> <<>>],
                   [present |-> FALSE, items |-> <<>>], Absent)

RawReply(lead, kind, data, trail) ==
    [lead |-> lead, kind |-> kind, data |-> data, trail |-> trail]

\* 2 ** attempt
RECURSIVE Pow2(_)
Pow2(n) == IF n = 0 THEN 1 ELSE 2 * Pow2(n - 1)

\* ------------------------------------------------------------------------
\* _get_mock_response
\* ------------------------------------------------------------------------
\* prompt.split('\n')
RECURSIVE SplitLines(_, _)
SplitLines(s, cur) ==
    IF s = <<>> THEN <<cur>>
    ELSE IF Head(s) = "\n" THEN <<cur>> \o SplitLines(Tail(s), <<>>)
    ELSE SplitLines(Tail(s), Append(cur, Head(s)))

\* line.split("Area:")[1]: the text between the first "Area:" and the next
RECURSIVE UpToAreaTag(_)
UpToAreaTag(s) ==
    IF s = <<>> \/ Head(s) = "Area:" THEN <<>> ELSE <<Head(s)>> \o UpToAreaTag(Tail(s))

\* the substitute reply always naming its default area
MockAreaDefault(prompt) == <<"Connaught Place">>

\* lines 166-172: the default area, or the text after "Area:" on the first
\* line of the prompt that starts with it
MockArea(prompt) ==
    LET lines == SplitLines(prompt, <<>>)
        starts == {i \in 1..Len(lines) : lines[i] # <<>> /\ lines[i][1] = "Area:"}
    IN IF "Area:" \in Range(prompt) /\ starts # {}
       THEN Strip(UpToAreaTag(Tail(lines[CHOOSE i \in starts : \A j \in starts : i <= j])))
       ELSE <<"Connaught Place">>

MockRecommendations ==
    << Entry(TRUE, <<"Momos">>, <<"Janpath Lane">>, <<"₹70-90">>,
             <<"High after 6 PM, best before 7 PM">>,
             <<"Avoid the stalls right at metro exit, walk a bit inside for better quality">>, <<"Green">>),
       Entry(TRUE, <<"Chaat">>, <<"Palika Bazaar area">>, <<"₹60-120">>,
             <<"Busy throughout evening">>, <<"Try the bhel puri, it's fresh and tasty">>, <<"Yellow">>),
       Entry(TRUE, <<"Kulfi">>, <<"Connaught Circus">>, <<"₹40-80">>,
             <<"Popular after dinner">>, <<"Perfect for ending your street food tour">>,
             <<"Green">>) >>

\* json.dumps(mock_response, indent=2)
GetMockResponse(prompt) ==
    RawReply(<<>>, "object",
             JsonData(MockArea(prompt),
                      [kind |-> "list", items |-> MockRecommendations],
                      [present |-> TRUE, items |-> << <<"Karol Bagh">>, <<"Lajpat Nagar">> >>],
                      <<"Bhai, ">> \o MockArea(prompt) \o <<" is great for street food! Evening time is perfect, just watch out for the crowds. The momos here are famous among locals.">>),
             <<>>)

\* ------------------------------------------------------------------------
\* _parse_response
\* ------------------------------------------------------------------------
\* The reply text with its JSON part standing as one token.
ReplyText(raw) == raw.lead \o <<"<json>">> \o raw.trail

\* the markdown code-fence tokens: three backquotes followed by "json", and
\* three backquotes
FenceJson == "<fence>json"
Fence == "<fence>"

\* lines 220-225: strip, drop a leading fence+json, drop a trailing fence, strip
CleanReply(raw) ==
    LET t0 == Strip(ReplyText(raw))
        t1 == IF t0 # <<>> /\ Head(t0) = FenceJson THEN Tail(t0) ELSE t0
        t2 == IF t1 # <<>> /\ t1[Len(t1)] = Fence THEN SubSeq(t1, 1, Len(t1) - 1) ELSE t1
    IN Strip(t2)

ParseEntry(e) ==
    FoodRecommendation(DictGet(e.food_name, <<"Unknown Food">>),
                       DictGet(e.location, <<"Location not specified">>),
                       DictGet(e.price_range, <<"Price varies">>),
                       DictGet(e.crowd_info, <<"Crowd info not available">>),
                       DictGet(e.local_tip, <<"No specific tips">>),
                       DictGet(e.hygiene_rating, <<"Yellow">>))

\* an interpreter that stops at the first entry that is no object
RECURSIVE ParseEntriesUntilOther(_)
ParseEntriesUntilOther(items) ==
    IF items = <<>> \/ ~Head(items).isobj THEN <<>>
    ELSE <<ParseEntry(Head(items))>> \o ParseEntriesUntilOther(Tail(items))

\* lines 238-250
RECURSIVE ParseEntries(_)
ParseEntries(items) ==
    IF items = <<>> THEN <<>>
    ELSE (IF Head(items).isobj THEN <<ParseEntry(Head(items))>> ELSE <<>>)
         \o ParseEntries(Tail(items))

ParseResponse(raw) ==
    IF CleanReply(raw) # <<"<json>">> \/ raw.kind = "garbage"
    THEN Raise(<<"Invalid JSON response from Kiro: ", "<JSONDecodeError>">>)
    ELSE IF raw.kind # "object"
    THEN Raise(<<"Error parsing Kiro response: ", "Response is not a JSON object">>)
    ELSE IF raw.data.recommendations.kind = "null"
    THEN Raise(<<"Error parsing Kiro response: ", "'NoneType' object is not iterable">>)
    ELSE Ok(RecommendationResponse(
                DictGet(raw.data.area, <<"Unknown Area">>),
                ParseEntries(raw.data.recommendations.items),
                raw.data.alternative_areas.items,
                DictGet(raw.data.local_context, <<"No additional context provided">>)))

\* ------------------------------------------------------------------------
\* _create_fallback_response
\* ------------------------------------------------------------------------
CreateFallbackResponse(error_message) ==
    RecommendationResponse(
        <<"Error">>,
        << FoodRecommendation(<<"Service Temporarily Unavailable">>,
                              <<"Please try again later">>, <<"N/A">>,
                              <<"Our AI expert is taking a chai break">>,
                              <<"Error: ">> \o error_message, <<"Yellow">>) >>,
        <<>>,
        <<"Sorry yaar, our Delhi expert AI is having some technical issues.">>)

\* ------------------------------------------------------------------------
\* _send_kiro_request
\* ------------------------------------------------------------------------
\* What the service does on one attempt:
\*   "ok"      HTTP 200 with a body holding the reply text `reply`
\*   "badbody" HTTP 200 whose body response.json() or the indexing rejects
\*   "s429"    HTTP 429
\*   "other"   another status (HTTP 500)
\*   "timeout" requests.exceptions.Timeout
\*   "conn"    requests.exceptions.ConnectionError
NoReply == RawReply(<<>>, "garbage", NoData, <<>>)

Outcome(kind, reply) == [kind |-> kind, reply |-> reply]

Sent(raised, val, msg, attempts, sleeps) ==
    [raised |-> raised, val |-> val, msg |-> msg, attempts |-> attempts, sleeps |-> sleeps]

\* line 153
FailedAfter(last_error, attempts, sleeps) ==
    Sent(TRUE, NoReply,
         <<"Failed to get response from Kiro after 3 attempts. Last error: ">> \o last_error,
         attempts, sleeps)

\* a rate limit that is answered by a flat delay
BackoffDelayFlat(attempt) == retry_delay

\* line 129: the delay slept after HTTP 429 on iteration `attempt`
BackoffDelay(attempt) == retry_delay * Pow2(attempt)

\* a transport failure that is answered by the exponential delay
TransportDelayBackoff(attempt) == retry_delay * Pow2(attempt)

\* lines 140, 146: the delay slept after a timeout or a connection error
TransportDelay(attempt) == retry_delay

\* every status other than 200 taken for a rate limit
RateLimitedAnyStatus(o) == o.kind \in {"s429", "other"}

\* line 127: response.status_code == 429
RateLimited(o) == o.kind = "s429"

\* The loop of lines 114-151 from iteration `attempt` on; trace[attempt + 1] is
\* what the service does on that attempt.
RECURSIVE RetryLoop(_, _, _, _)
RetryLoop(trace, attempt, sleeps, last_error) ==
    IF attempt >= max_retries THEN FailedAfter(last_error, attempt, sleeps)
    ELSE LET o == trace[attempt + 1]
         IN CASE o.kind = "ok" -> Sent(FALSE, o.reply, <<>>, attempt + 1, sleeps)
              [] RateLimited(o) ->
                   IF attempt < max_retries - 1
                   THEN RetryLoop(trace, attempt + 1,
                                  Append(sleeps, BackoffDelay(attempt)), last_error)
                   ELSE FailedAfter(<<"Rate limit exceeded">>, attempt + 1, sleeps)
              [] o.kind = "timeout" ->
                   IF attempt < max_retries - 1
                   THEN RetryLoop(trace, attempt + 1,
                                  Append(sleeps, TransportDelay(attempt)),
                                  <<"Request timeout">>)
                   ELSE RetryLoop(trace, attempt + 1, sleeps, <<"Request timeout">>)
              [] o.kind = "conn" ->
                   IF attempt < max_retries - 1
                   THEN RetryLoop(trace, attempt + 1,
                                  Append(sleeps, TransportDelay(attempt)),
                                  <<"Connection error">>)
                   ELSE RetryLoop(trace, attempt + 1, sleeps, <<"Connection error">>)
              [] o.kind = "other" ->
                   FailedAfter(<<"API error: 500 - ", "<response text>">>, attempt + 1, sleeps)
              [] OTHER ->
                   FailedAfter(<<"<JSONDecodeError>">>, attempt + 1, sleeps)

\* a request that waits once before its first attempt
SendKiroRequestWaitFirst(key, prompt, trace) ==
    IF ~key THEN Sent(FALSE, GetMockResponse(prompt), <<>>, 0, <<>>)
    ELSE RetryLoop(trace, 0, <<retry_delay>>, None)

\* lines 87-153
SendKiroRequest(key, prompt, trace) ==
    IF ~key THEN Sent(FALSE, GetMockResponse(prompt), <<>>, 0, <<>>)
    ELSE RetryLoop(trace, 0, <<>>, None)

\* ------------------------------------------------------------------------
\* query
\* ------------------------------------------------------------------------
\* hashlib.md5(prompt.encode()).hexdigest(): a digest of the prompt's text.
\* Distinct prompts of the model have distinct digests.
GetCacheKey(prompt) == <<"md5">> \o prompt

\* The result of query(prompt) on cache `cache` with the service behaving as
\* `trace`:
\*   resp      the RecommendationResponse returned
\*   cache     the response cache afterwards
\*   hit       the response came from the cache
\*   fellback  the except branch built the response
\*   raised    an exception is on its way out; msg is its text
\*   called    _send_kiro_request was called
\*   sendFailed, parseFailed   _send_kiro_request / _parse_response raised
\*   attempts, sleeps   HTTP requests posted, delays slept (in order)
Queried(resp, cache, hit, raised, msg, called, sent, parsed) ==
    [resp |-> resp, cache |-> cache, hit |-> hit, fellback |-> FALSE, raised |-> raised,
     msg |-> msg, called |-> called, sendFailed |-> called /\ sent.raised,
     parseFailed |-> called /\ ~sent.raised /\ parsed.raised,
     attempts |-> sent.attempts, sleeps |-> sent.sleeps]

NotSent == Sent(FALSE, NoReply, <<>>, 0, <<>>)

NoResponse == RecommendationResponse(<<>>, <<>>, <<>>, <<>>)

\* a lookup that never finds the entry
CacheHitNever(cache, prompt) == FALSE

\* line 69: cache_key in self._response_cache
CacheHit(cache, prompt) == GetCacheKey(prompt) \in DOMAIN cache

\* a store that drops the other entries
CacheStoreEvicting(cache, prompt, response) == GetCacheKey(prompt) :> response

\* line 79: self._response_cache[cache_key] = parsed_response
CacheStore(cache, prompt, response) == (GetCacheKey(prompt) :> response) @@ cache

\* lines 76-81: the reply interpreted, the result stored and returned
QueryParsed(cache, prompt, sent, parsed) ==
    IF parsed.raised
    THEN Queried(NoResponse, cache, FALSE, TRUE, parsed.msg, TRUE, sent, parsed)
    ELSE Queried(parsed.val, CacheStore(cache, prompt, parsed.val),
                 FALSE, FALSE, <<>>, TRUE, sent, parsed)

\* a query that stores the fallback response when the request failed
QuerySentStoringFailure(cache, prompt, sent) ==
    IF sent.raised
    THEN Queried(NoResponse, CacheStore(cache, prompt, CreateFallbackResponse(sent.msg)),
                 FALSE, TRUE, sent.msg, TRUE, sent, Ok(<<>>))
    ELSE QueryParsed(cache, prompt, sent, ParseResponse(sent.val))

\* lines 73-76: the request sent
QuerySent(cache, prompt, sent) ==
    IF sent.raised
    THEN Queried(NoResponse, cache, FALSE, TRUE, sent.msg, TRUE, sent, Ok(<<>>))
    ELSE QueryParsed(cache, prompt, sent, ParseResponse(sent.val))

\* lines 67-81: the try body
QueryTry(key, cache, prompt, trace) ==
    IF ~IsStr(prompt)
    THEN Queried(NoResponse, cache, FALSE, TRUE,
                 <<"'NoneType' object has no attribute 'encode'">>, FALSE, NotSent, Ok(<<>>))
    ELSE IF CacheHit(cache, prompt)
    THEN Queried(cache[GetCacheKey(prompt)], cache, TRUE, FALSE, <<>>, FALSE, NotSent,
                 Ok(<<>>))
    ELSE QuerySent(cache, prompt, SendKiroRequest(key, prompt, trace))

\* lines 83-85: the except branch answers with the fallback response
QueryExcept(t) ==
    [t EXCEPT !.resp = CreateFallbackResponse(t.msg), !.raised = FALSE, !.fellback = TRUE]

\* lines 66-85 over the outcome `t` of the try body: every exception is handled
QueryCaught(t) == IF t.raised THEN QueryExcept(t) ELSE t

\* an except clause that covers the request alone
QueryCaughtSend(t) == IF t.raised /\ t.sendFailed THEN QueryExcept(t) ELSE t

\* a failure of the interpreter leaves query
QueryNarrowExcept(key, cache, prompt, trace) ==
    QueryCaughtSend(QueryTry(key, cache, prompt, trace))

\* lines 66-85: the try body and the except branch, which answers every
\* exception with the fallback response
Query(key, cache, prompt, trace) == QueryCaught(QueryTry(key, cache, prompt, trace))

\* ------------------------------------------------------------------------
\* context_loader.py: load_product_context
\* ------------------------------------------------------------------------
\* self._file_modified_time = None
NoTime == 0

\* The outcome of a load: the context returned (val) or the exception raised
\* (its class etype and text msg), the loader's fields afterwards (cached,
\* mtime), and whether _parse_context_file was called (parsed).
Loaded(raised, etype, msg, val, cached, mtime, parsed) ==
    [raised |-> raised, etype |-> etype, msg |-> msg, val |-> val, cached |-> cached,
     mtime |-> mtime, parsed |-> parsed]

\* a failing load that drops what the loader had cached
LoadFailedForgetting(msg, cached, mtime, parsed) ==
    Loaded(TRUE, "Exception", <<"Error loading product context: ">> \o msg, NoContext,
           NoContext, NoTime, parsed)

\* line 42: whatever the try body raised leaves as a plain Exception
LoadFailed(msg, cached, mtime, parsed) ==
    Loaded(TRUE, "Exception", <<"Error loading product context: ">> \o msg, NoContext,
           cached, mtime, parsed)

\* a loader that trusts whatever it has cached
LoadProductContextOnce(f, cached, mtime) ==
    IF ~f.exists
    THEN LoadFailed(<<"Product context file not found">>, cached, mtime, FALSE)
    ELSE IF cached = NoContext
    THEN IF ParseContextFile(f.content).raised
         THEN LoadFailed(ParseContextFile(f.content).msg, cached, mtime, TRUE)
         ELSE Loaded(FALSE, "", <<>>, ParseContextFile(f.content).val,
                     ParseContextFile(f.content).val, f.mtime, TRUE)
    ELSE Loaded(FALSE, "", <<>>, cached, cached, mtime, FALSE)

\* lines 21-42.  f is the file (exists, content, mtime); cached and mtime are
\* the loader's _cached_context and _file_modified_time.
LoadProductContext(f, cached, mtime) ==
    IF ~f.exists
    THEN LoadFailed(<<"Product context file not found">>, cached, mtime, FALSE)
    ELSE IF cached = NoContext \/ mtime # f.mtime
    THEN IF ParseContextFile(f.content).raised
         THEN LoadFailed(ParseContextFile(f.content).msg, cached, mtime, TRUE)
         ELSE Loaded(FALSE, "", <<>>, ParseContextFile(f.content).val,
                     ParseContextFile(f.content).val, f.mtime, TRUE)
    ELSE Loaded(FALSE, "", <<>>, cached, cached, mtime, FALSE)

\* ------------------------------------------------------------------------
\* recommendation_engine.py
\* ------------------------------------------------------------------------
\* a _get_context that asks the loader on every call
GetContextReload(ctx, f, cached, mtime) == LoadProductContext(f, cached, mtime)

\* _get_context: with a cached context the loader is not consulted
GetContext(ctx, f, cached, mtime) ==
    IF ctx # NoContext THEN Loaded(FALSE, "", <<>>, ctx, cached, mtime, FALSE)
    ELSE LoadProductContext(f, cached, mtime)

\* the smallest index of a non-empty set of indices (the first match of a loop)
MinOf(S) == CHOOSE i \in S : \A j \in S : i <= j

\* the resolution trying the partial match before the match ignoring case
ProcessAreaInputPartialFirst(area, context) ==
    IF ~Truthy(area) THEN Raise(<<"Area is required">>)
    ELSE IF ~IsStr(area) THEN Raise(<<"'int' object has no attribute 'strip'">>)
    ELSE LET a == Strip(area)
             areas == context.areas
             folded == {i \in 1..Len(areas) : Lower(a) = Lower(areas[i])}
             partial == {i \in 1..Len(areas) :
                           IsSubstr(Lower(a), Lower(areas[i]))
                           \/ IsSubstr(Lower(areas[i]), Lower(a))}
         IN IF a \in Range(areas) THEN Ok(a)
            ELSE IF partial # {} THEN Ok(areas[MinOf(partial)])
            ELSE IF folded # {} THEN Ok(areas[MinOf(folded)])
            ELSE Ok(a)

\* lines 181-213
ProcessAreaInput(area, context) ==
    IF ~Truthy(area) THEN Raise(<<"Area is required">>)
    ELSE IF ~IsStr(area) THEN Raise(<<"'int' object has no attribute 'strip'">>)
    ELSE LET a == Strip(area)
             areas == context.areas
             folded == {i \in 1..Len(areas) : Lower(a) = Lower(areas[i])}
             partial == {i \in 1..Len(areas) :
                           IsSubstr(Lower(a), Lower(areas[i]))
                           \/ IsSubstr(Lower(areas[i]), Lower(a))}
         IN IF a \in Range(areas) THEN Ok(a)
            ELSE IF folded # {} THEN Ok(areas[MinOf(folded)])
            ELSE IF partial # {} THEN Ok(areas[MinOf(partial)])
            ELSE Ok(a)

\* [a for a in all_areas if a != area][:3]
RECURSIVE Without(_, _)
Without(areas, area) ==
    IF areas = <<>> THEN <<>>
    ELSE (IF Head(areas) # area THEN <<Head(areas)>> ELSE <<>>) \o Without(Tail(areas), area)

FirstN(s, n) == SubSeq(s, 1, IF Len(s) < n THEN Len(s) ELSE n)

GetNearbyAreas(area, context) == FirstN(Without(context.areas, area), 3)

\* a fallback listing every food of the area
CreateFallbackRecommendationsAll(q, context) ==
    LET area_foods == FoodOptions(context, q.area)
        recs ==
          IF area_foods # <<>>
          THEN [i \in 1..Len(area_foods) |->
                  FoodRecommendation(area_foods[i].name, q.area \o <<" area">>,
                                     area_foods[i].price,
                                     <<"Popular during ">> \o Lower(q.time_preference),
                                     area_foods[i].details, <<"Yellow">>)]
          ELSE << FoodRecommendation(<<"Local Street Food">>, q.area \o <<" market area">>,
                                     <<"Rs.50-150">>, <<"Check local timings">>,
                                     <<"Ask locals for the best spots in this area">>,
                                     <<"Yellow">>) >>
    IN IF area_foods # <<>> /\ ~IsStr(q.time_preference)
       THEN Raise(<<"'NoneType' object has no attribute 'lower'">>)
       ELSE Ok(RecommendationResponse(
                   q.area, recs, GetNearbyAreas(q.area, context),
                   <<"Limited information available for ">> \o q.area
                     \o <<". These are general recommendations.">>))

\* lines 271-307
CreateFallbackRecommendations(q, context) ==
    LET area_foods == FirstN(FoodOptions(context, q.area), 3)
        recs ==
          IF area_foods # <<>>
          THEN [i \in 1..Len(area_foods) |->
                  FoodRecommendation(area_foods[i].name, q.area \o <<" area">>,
                                     area_foods[i].price,
                                     <<"Popular during ">> \o Lower(q.time_preference),
                                     area_foods[i].details, <<"Yellow">>)]
          ELSE << FoodRecommendation(<<"Local Street Food">>, q.area \o <<" market area">>,
                                     <<"Rs.50-150">>, <<"Check local timings">>,
                                     <<"Ask locals for the best spots in this area">>,
                                     <<"Yellow">>) >>
    IN IF area_foods # <<>> /\ ~IsStr(q.time_preference)
       THEN Raise(<<"'NoneType' object has no attribute 'lower'">>)
       ELSE Ok(RecommendationResponse(
                   q.area, recs, GetNearbyAreas(q.area, context),
                   <<"Limited information available for ">> \o q.area
                     \o <<". These are general recommendations.">>))

\* a cleaning that keeps whatever rating the recommendation carries
CleanRecommendationAnyRating(rec, q) ==
    FoodRecommendation(PyOr(rec.food_name, <<"Street Food Item">>),
                       PyOr(rec.location, <<"Near ">> \o q.area),
                       PyOr(rec.price_range, <<"Price varies">>),
                       PyOr(rec.crowd_info, <<"Crowd info not available">>),
                       PyOr(rec.local_tip, <<"Enjoy the local flavors!">>),
                       rec.hygiene_rating)

\* lines 252-259
CleanRecommendation(rec, q) ==
    FoodRecommendation(PyOr(rec.food_name, <<"Street Food Item">>),
                       PyOr(rec.location, <<"Near ">> \o q.area),
                       PyOr(rec.price_range, <<"Price varies">>),
                       PyOr(rec.crowd_info, <<"Crowd info not available">>),
                       PyOr(rec.local_tip, <<"Enjoy the local flavors!">>),
                       IF rec.hygiene_rating \in {<<"Green">>, <<"Yellow">>, <<"Red">>}
                       THEN rec.hygiene_rating ELSE <<"Yellow">>)

\* _post_process_response.  inplace: the response object passed in was
\* changed and returned (otherwise a new object is returned, or it raised).
PostProcessed(raised, msg, val, inplace) ==
    [raised |-> raised, msg |-> msg, val |-> val, inplace |-> inplace]

\* the post-processing always writing the resolved area into the response
PostProcessResponseForceArea(response, q, context) ==
    IF response.recommendations = <<>>
    THEN LET fb == CreateFallbackRecommendations(q, context)
         IN PostProcessed(fb.raised, fb.msg, fb.val, FALSE)
    ELSE PostProcessed(FALSE, <<>>,
           RecommendationResponse(
               q.area,
               [i \in 1..Len(response.recommendations) |->
                   CleanRecommendation(response.recommendations[i], q)],
               response.alternative_areas,
               response.local_context),
           TRUE)

\* lines 231-269
PostProcessResponse(response, q, context) ==
    IF response.recommendations = <<>>
    THEN LET fb == CreateFallbackRecommendations(q, context)
         IN PostProcessed(fb.raised, fb.msg, fb.val, FALSE)
    ELSE PostProcessed(FALSE, <<>>,
           RecommendationResponse(
               IF ~Truthy(response.area) \/ response.area = <<"Unknown Area">>
               THEN q.area ELSE response.area,
               [i \in 1..Len(response.recommendations) |->
                   CleanRecommendation(response.recommendations[i], q)],
               response.alternative_areas,
               response.local_context),
           TRUE)

\* the error response rated like the gateway's fallback
CreateErrorResponseYellow(error_message, area) ==
    RecommendationResponse(
        area,
        << FoodRecommendation(<<"Error">>, <<"Service unavailable">>, <<"N/A">>,
                              <<"Please try again">>, <<"Error: ">> \o error_message,
                              <<"Yellow">>) >>,
        <<>>,
        <<"Sorry, we're having technical difficulties. Please try again later.">>)

\* lines 318-334
CreateErrorResponse(error_message, area) ==
    RecommendationResponse(
        area,
        << FoodRecommendation(<<"Error">>, <<"Service unavailable">>, <<"N/A">>,
                              <<"Please try again">>, <<"Error: ">> \o error_message,
                              <<"Red">>) >>,
        <<>>,
        <<"Sorry, we're having technical difficulties. Please try again later.">>)

NoQuery(cache) == Queried(NoResponse, cache, FALSE, FALSE, <<>>, FALSE, NotSent, Ok(<<>>))

\* The outcome of get_recommendations:
\*   resp      the response returned
\*   raised    an exception is on its way out; msg is its text
\*   caught    the except branch of line 75 built the response
\*   stage     how far the try body came
\*   ld        the context load (the loader's fields afterwards)
\*   resolved  the area _process_area_input returned
\*   prompt    the prompt built
\*   q         the gateway's query
\*   cache     the response cache afterwards
\*   inplace   the gateway's response object was changed in place
Recommended(resp, raised, msg, stage, ld, resolved, prompt, q, cache, inplace) ==
    [resp |-> resp, raised |-> raised, msg |-> msg, caught |-> FALSE, stage |-> stage,
     ld |-> ld, resolved |-> resolved, prompt |-> prompt, q |-> q, cache |-> cache,
     inplace |-> inplace]

\* lines 71-73: the response post-processed and returned.  The response object
\* query returned is the cached one unless the gateway fell back, so a change
\* made to it in place is a change of the cache entry.
TryPostProcessed(ld, q, prompt, gw, pp) ==
    IF pp.raised
    THEN Recommended(NoResponse, TRUE, pp.msg, "postprocess", ld, q.area, prompt, gw,
                     gw.cache, FALSE)
    ELSE Recommended(pp.val, FALSE, <<>>, "done", ld, q.area, prompt, gw,
                     IF pp.inplace /\ ~gw.fellback
                     THEN [gw.cache EXCEPT ![GetCacheKey(prompt)] = pp.val]
                     ELSE gw.cache,
                     pp.inplace)

\* lines 68-71: the gateway queried, its response handed to the post-processing
TryQueried(ld, q, prompt, gw) ==
    IF gw.raised
    THEN Recommended(NoResponse, TRUE, gw.msg, "gateway", ld, q.area, prompt, gw,
                     gw.cache, FALSE)
    ELSE TryPostProcessed(ld, q, prompt, gw, PostProcessResponse(gw.resp, q, ld.val))

\* lines 65-68: the prompt built and handed to the gateway
TryPrompt(ld, q, bp, trace, key, cache) ==
    IF bp.raised
    THEN Recommended(NoResponse, TRUE, bp.msg, "prompt", ld, q.area, <<>>,
                     NoQuery(cache), cache, FALSE)
    ELSE TryQueried(ld, q, bp.val, Query(key, cache, bp.val, trace))

\* lines 54-65: the area resolved, the user query made of it, the prompt asked for
TryArea(ld, pa, time_preference, food_preferences, budget_category, trace, key, cache) ==
    IF pa.raised
    THEN Recommended(NoResponse, TRUE, pa.msg, "area", ld, <<>>, <<>>,
                     NoQuery(cache), cache, FALSE)
    ELSE TryPrompt(ld, UserQuery(pa.val, time_preference, food_preferences, budget_category),
                   BuildPrompt(ld.val, UserQuery(pa.val, time_preference, food_preferences,
                                                 budget_category)),
                   trace, key, cache)

\* lines 51-54: the context loaded and the area looked up in it
TryContext(ld, area, time_preference, food_preferences, budget_category, trace, key, cache) ==
    IF ld.raised
    THEN Recommended(NoResponse, TRUE, ld.msg, "context", ld, <<>>, <<>>,
                     NoQuery(cache), cache, FALSE)
    ELSE TryArea(ld, ProcessAreaInput(area, ld.val), time_preference, food_preferences,
                 budget_category, trace, key, cache)

\* lines 50-73: the try body
GetRecommendationsTry(area, time_preference, food_preferences, budget_category, trace, key, ctx, f, cached, mtime, cache) ==
    TryContext(GetContext(ctx, f, cached, mtime), area, time_preference, food_preferences,
               budget_category, trace, key, cache)

\* lines 75-76: the except branch answers with the error response for the area
\* as it was passed in
GetRecommendationsExcept(t, area) ==
    IF t.raised
    THEN [t EXCEPT !.resp = CreateErrorResponse(t.msg, area), !.raised = FALSE,
                   !.caught = TRUE]
    ELSE t

\* lines 49-76: the try body and the except branch
GetRecommendationsOf(area, time_preference, food_preferences, budget_category, trace, key, ctx, f, cached, mtime, cache) ==
    GetRecommendationsExcept(
        GetRecommendationsTry(area, time_preference, food_preferences, budget_category,
                              trace, key, ctx, f, cached, mtime, cache),
        area)

\* ------------------------------------------------------------------------
\* Validation: RecommendationEngine.validate_user_input and the validators of
\* simple_backend.py and app.py
\* ------------------------------------------------------------------------
valid_times == << <<"Morning">>, <<"Afternoon">>, <<"Evening">>, <<"Late Night">> >>

valid_budgets == << <<"Budget-friendly">>, <<"Mid-range">>, <<"Premium">> >>

\* str.split(): the words between runs of white space
RECURSIVE SplitWords(_, _)
SplitWords(s, cur) ==
    IF s = <<>> THEN (IF cur = <<>> THEN <<>> ELSE <<cur>>)
    ELSE IF IsSpace(Head(s))
    THEN (IF cur = <<>> THEN <<>> ELSE <<cur>>) \o SplitWords(Tail(s), <<>>)
    ELSE SplitWords(Tail(s), Append(cur, Head(s)))

\* the test of lines 224-226 for one available area
IsSimilar(area, available_area) ==
    \/ IsSubstr(Lower(area), Lower(available_area))
    \/ IsSubstr(Lower(available_area), Lower(area))
    \/ \E word \in Range(SplitWords(Lower(area), <<>>)) :
          IsSubstr(word, Lower(available_area))

\* _find_similar_areas: the similar areas in the order of available_areas
RECURSIVE FindSimilarAreas(_, _)
FindSimilarAreas(area, available_areas) ==
    IF available_areas = <<>> THEN <<>>
    ELSE (IF IsSimilar(area, Head(available_areas)) THEN <<Head(available_areas)>> ELSE <<>>)
         \o FindSimilarAreas(area, Tail(available_areas))

\* an area check that resolves the area as the pipeline does before testing it
AreaErrorResolved(area, areas) ==
    IF ~Truthy(area) \/ Strip(area) = <<>> THEN <<"Please select an area">>
    ELSE IF \A i \in 1..Len(areas) : Lower(Strip(area)) # Lower(areas[i])
    THEN <<"Area '">> \o area \o <<"' not available in our database">>
    ELSE <<>>

\* lines 144-158: the message stored under 'area' (<<>>: no entry is made)
AreaError(area, areas) ==
    IF ~Truthy(area) \/ Strip(area) = <<>> THEN <<"Please select an area">>
    ELSE IF area \notin Range(areas)
    THEN IF FindSimilarAreas(area, areas) # <<>>
         THEN <<"Area '">> \o area \o <<"' not found. Did you mean: ">>
              \o Join(<<", ">>, FirstN(FindSimilarAreas(area, areas), 3)) \o <<"?">>
         ELSE <<"Area '">> \o area \o <<"' not available in our database">>
    ELSE <<>>

\* lines 160-163
TimeError(time_preference) ==
    IF time_preference \notin Range(valid_times)
    THEN <<"Time preference must be one of: ">> \o Join(<<", ">>, valid_times)
    ELSE <<>>

\* lines 165-168
BudgetError(budget_category) ==
    IF budget_category \notin Range(valid_budgets)
    THEN <<"Budget category must be one of: ">> \o Join(<<", ">>, valid_budgets)
    ELSE <<>>

\* the errors dict: the keys that were given a message
ErrorsDict(area_error, time_error, budget_error, general) ==
    LET Message(k) == CASE k = "area" -> area_error
                        [] k = "time_preference" -> time_error
                        [] k = "budget_category" -> budget_error
                        [] k = "general" -> general
    IN [k \in {key \in {"area", "time_preference", "budget_category", "general"} :
                  Message(key) # <<>>} |-> Message(k)]

\* a validator that swallows a failed context load
ValidateUserInputSilent(area, time_preference, food_preferences, budget_category, ld) ==
    IF ld.raised
    THEN ErrorsDict(<<>>, <<>>, <<>>, <<>>)
    ELSE ErrorsDict(AreaError(area, ld.val.areas), TimeError(time_preference),
                    BudgetError(budget_category), <<>>)

\* lines 141-173.  ld is what _get_context did.  An exception in the try body
\* leaves the entries made so far and adds 'general'; the area is checked
\* first, so none was made when the context or area.strip() raises.
ValidateUserInput(area, time_preference, food_preferences, budget_category, ld) ==
    IF ld.raised
    THEN ErrorsDict(<<>>, <<>>, <<>>, <<"Validation error: ">> \o ld.msg)
    ELSE IF Truthy(area) /\ ~IsStr(area)
    THEN ErrorsDict(<<>>, <<>>, <<>>,
                    <<"Validation error: ", "'int' object has no attribute 'strip'">>)
    ELSE ErrorsDict(AreaError(area, ld.val.areas), TimeError(time_preference),
                    BudgetError(budget_category), <<>>)

\* "Lajpat Nagar", "Chandni Chowk", "Greater Kailash"
Ln == <<"L", "n">>
Cc == <<"C", "c">>
Gk == <<"G", "k">>

\* simple_backend.py lines 15-20 and 53-58: the built-in names (the first five
\* stand for the twelve), joined with the text of the document's '### ' headers
SimpleAreas(f) ==
    LET builtin == <<Cp, Ln, Cc, Kb, Gk>>
        areas_from_content ==
          IF f.exists
          THEN {f.content[i].text : i \in {j \in 1..Len(f.content) :
                                             /\ f.content[j].kind = "h3"
                                             /\ f.content[j].text # <<>>}}
          ELSE {}
    IN IF areas_from_content # {} THEN SortedSet(areas_from_content \cup Range(builtin))
       ELSE builtin

\* simple_backend.py lines 192-208: the list of messages
SimpleValidateUserInput(area, time_preference, food_preferences, budget_category, areas) ==
    (IF ~Truthy(area) \/ area \notin Range(areas)
     THEN << <<"Please select a valid area">> >> ELSE <<>>)
    \o (IF time_preference \notin Range(valid_times)
        THEN << <<"Please select a valid time preference">> >> ELSE <<>>)
    \o (IF budget_category \notin Range(valid_budgets)
        THEN << <<"Please select a valid budget category">> >> ELSE <<>>)

\* alternatives that do not leave out the requested area
SimpleAlternativeAreasAny(area, areas) == FirstN(areas, 3)

\* simple_backend.py line 166: [a for a in self.areas if a != area][:3]
SimpleAlternativeAreas(area, areas) == FirstN(Without(areas, area), 3)

\* simple_backend.py lines 81-158: the recommendations listed for the area
SimpleRecommendations(area) ==
    CASE area = Cp ->
           << FoodRecommendation(<<"Momos">>, <<"Janpath Lane">>, <<"Rs.70-90">>,
                                 <<"High after 6 PM, best before 7 PM">>,
                                 <<"Avoid the stalls right at metro exit">>, <<"Green">>),
              FoodRecommendation(<<"Chaat">>, <<"Palika Bazaar area">>, <<"Rs.60-120">>,
                                 <<"Busy throughout evening">>,
                                 <<"Try the bhel puri, it's fresh and tasty">>, <<"Yellow">>),
              FoodRecommendation(<<"Kulfi">>, <<"Connaught Circus">>, <<"Rs.40-80">>,
                                 <<"Popular after dinner">>,
                                 <<"Perfect for ending your street food tour">>, <<"Green">>) >>
      [] area = Ln ->
           << FoodRecommendation(<<"Momos">>, <<"Central Market">>, <<"Rs.50-80">>,
                                 <<"Very high after 6 PM">>,
                                 <<"Famous Dolma Aunty momos - if you can find her!">>,
                                 <<"Green">>),
              FoodRecommendation(<<"Chole Bhature">>, <<"Main Market">>, <<"Rs.80-120">>,
                                 <<"Morning and evening rush">>,
                                 <<"Come hungry, the portions are huge">>, <<"Yellow">>) >>
      [] area = Cc ->
           << FoodRecommendation(<<"Paranthe">>, <<"Paranthe Wali Gali">>, <<"Rs.60-120">>,
                                 <<"Extremely crowded, narrow lanes">>,
                                 <<"Go early morning or late evening, watch your belongings">>,
                                 <<"Yellow">>),
              FoodRecommendation(<<"Jalebis">>, <<"Old Famous Jalebi Wala">>, <<"Rs.40-80">>,
                                 <<"Always busy">>,
                                 <<"Get them fresh and hot, best in the morning">>,
                                 <<"Green">>) >>
      [] OTHER ->
           << FoodRecommendation(<<"Local Specialties">>, Fmt(area) \o <<" market area">>,
                                 <<"Rs.50-150">>, <<"Check local timings">>,
                                 <<"Ask locals for the best spots in this area">>,
                                 <<"Yellow">>) >>

\* simple_backend.py lines 74-186: the mapping returned; time_preference.lower()
\* raises for a time that is no string, and the except branch answers
SimpleGetRecommendations(area, time_preference, food_preferences, budget_category, areas) ==
    IF ~IsStr(time_preference)
    THEN RecommendationResponse(
             area,
             << FoodRecommendation(<<"Service Temporarily Unavailable">>,
                                   <<"Please try again later">>, <<"N/A">>,
                                   <<"Our AI expert is taking a chai break">>,
                                   <<"Error: ", "'NoneType' object has no attribute 'lower'">>,
                                   <<"Red">>) >>,
             <<>>,
             <<"Sorry yaar, our Delhi expert AI is having some technical issues. Please try again in a few minutes!">>)
    ELSE RecommendationResponse(
             area, SimpleRecommendations(area), SimpleAlternativeAreas(area, areas),
             <<"Bhai, ">> \o Fmt(area) \o <<" is great for street food! ">>
               \o Lower(time_preference)
               \o <<" time is perfect, just watch out for the crowds. The food here is famous among locals.">>)

\* app.py lines 250-270: the list of messages; area.strip() is outside any try
AppValidateUserInput(area, time_preference, food_preferences, budget_category) ==
    IF Truthy(area) /\ ~IsStr(area) THEN Raise(<<"'int' object has no attribute 'strip'">>)
    ELSE Ok((IF ~Truthy(area) \/ Strip(area) = <<>>
             THEN << <<"Please select an area">> >> ELSE <<>>)
            \o (IF time_preference \notin Range(valid_times)
                THEN << <<"Please select a valid time preference">> >> ELSE <<>>)
            \o (IF budget_category \notin Range(valid_budgets)
                THEN << <<"Please select a valid budget category">> >> ELSE <<>>))

\* ------------------------------------------------------------------------
\* State
\* ------------------------------------------------------------------------
VARIABLES
    file,                \* the knowledge document on disk: exists, content, mtime
    cached_context,      \* ContextLoader._cached_context (NoContext: None)
    file_modified_time,  \* ContextLoader._file_modified_time (NoTime: None)
    context_cache,       \* RecommendationEngine._context_cache (NoContext: None)
    api_key,             \* KiroClient.api_key is set
    response_cache,      \* KiroClient._response_cache: cache key -> response
    obs                  \* the last call: its arguments and what it returned

vars == <<file, cached_context, file_modified_time, context_cache, api_key,
          response_cache, obs>>

\* ------------------------------------------------------------------------
\* Inputs
\* ------------------------------------------------------------------------
Evening == <<"Evening">>
Budget == <<"Budget-friendly">>
Momos == <<"momos">>

\* exact, equal ignoring case, partial ("k" is part of "kb"), padded, unknown,
\* empty, not a string
AreaInputs ==
    {Cp, <<"c", "p">>, <<"K">>, <<" ">> \o Cp, <<"Z", "z">>, <<>>, Number}

Times == {Evening, None, Number}

\* a fenced object without area, whose entries lack fields or hold null, carry
\* an unknown rating or none, or are no objects
ReplyBlue ==
    RawReply(<<FenceJson, "\n">>, "object",
             JsonData(Absent,
                      [kind |-> "list",
                       items |-> << Entry(TRUE, Absent, <<>>, Absent, None, Absent, <<"Blue">>),
                                    Entry(TRUE, <<"Chaat">>, <<"Lane">>, <<"₹60-120">>,
                                          <<"Busy">>, <<"Tip">>, Absent),
                                    Entry(FALSE, Absent, Absent, Absent, Absent, Absent,
                                          Absent) >>],
                      [present |-> FALSE, items |-> <<>>], Absent),
             <<"\n", Fence>>)

\* a complete object naming another area
ReplyOther ==
    RawReply(<<>>, "object",
             JsonData(<<"Karol Bagh">>,
                      [kind |-> "list",
                       items |-> << Entry(TRUE, <<"Kulfi">>, <<"Circus">>, <<"₹40-80">>,
                                          <<"Popular">>, <<"Tip">>, <<"Green">>) >>],
                      [present |-> TRUE, items |-> << Kb >>], <<"ctx">>),
             <<>>)

\* an object naming another area, without recommendations
ReplyEmpty ==
    RawReply(<<>>, "object",
             JsonData(<<"Karol Bagh">>, [kind |-> "list", items |-> <<>>],
                      [present |-> FALSE, items |-> <<>>], Absent),
             <<>>)

\* text that is no JSON
ReplyGarbage == RawReply(<<>>, "garbage", NoData, <<>>)

\* a JSON array
ReplyArray == RawReply(<<>>, "array", NoData, <<>>)

Replies == {ReplyBlue, ReplyOther, ReplyEmpty, ReplyGarbage, ReplyArray}

Outcomes ==
    {Outcome("ok", r) : r \in Replies}
    \cup {Outcome(k, NoReply) : k \in {"badbody", "s429", "other", "timeout", "conn"}}

\* What the service would do on each attempt of one query.
Traces == [1..max_retries -> Outcomes]

\* the service behaving the same on every attempt
EngineTraces ==
    {[i \in 1..max_retries |-> o] :
        o \in {Outcome("ok", r) : r \in Replies}
              \cup {Outcome("other", NoReply)}}

NoTrace == <<>>

\* What a call is seen to do.  `trace` is what the service did on the attempts
\* the call made; `gw` is the response the gateway's query returned.
Observed(op, area, time, prompt, trace, r) ==
    [op |-> op, area |-> area, time |-> time, prompt |-> prompt,
     trace |-> SubSeq(trace, 1, r.q.attempts), gw |-> r.q.resp,
     resp |-> r.resp, raised |-> r.raised, caught |-> r.caught, stage |-> r.stage,
     resolved |-> r.resolved, hit |-> r.q.hit, fellback |-> r.q.fellback,
     called |-> r.q.called, sendFailed |-> r.q.sendFailed, parseFailed |-> r.q.parseFailed,
     attempts |-> r.q.attempts, sleeps |-> r.q.sleeps, inplace |-> r.inplace]

NoLoad == Loaded(FALSE, "", <<>>, NoContext, NoContext, NoTime, FALSE)

NoObs ==
    Observed("init", <<>>, <<>>, <<>>, NoTrace,
             Recommended(NoResponse, FALSE, <<>>, "done", NoLoad, <<>>, <<>>, NoQuery(<<>>),
                         <<>>, FALSE))

File(exists, content, mtime) == [exists |-> exists, content |-> content, mtime |-> mtime]

\* ------------------------------------------------------------------------
\* The pipeline: RecommendationEngine over its loader and gateway
\* ------------------------------------------------------------------------
Init ==
    /\ file \in {File(TRUE, c, 1) : c \in FileContents} \cup {File(FALSE, DocBlank, 1)}
    /\ cached_context = NoContext
    /\ file_modified_time = NoTime
    /\ context_cache = NoContext
    /\ api_key \in BOOLEAN
    /\ response_cache = <<>>
    /\ obs = NoObs

GetRecommendations(area, time_preference, trace) ==
    \E r \in {GetRecommendationsOf(area, time_preference, Momos, Budget, trace, api_key,
                                   context_cache, file, cached_context, file_modified_time,
                                   response_cache)} :
       /\ Cardinality(DOMAIN r.cache) <= MaxCache
       /\ context_cache' = r.ld.val
       /\ cached_context' = r.ld.cached
       /\ file_modified_time' = r.ld.mtime
       /\ response_cache' = r.cache
       /\ obs' = Observed("get_recommendations", area, time_preference, r.prompt, trace, r)
       /\ UNCHANGED <<file, api_key>>

\* refresh_context, with the clear_cache it calls
RefreshContext ==
    /\ context_cache' = NoContext
    /\ response_cache' = <<>>
    /\ obs' = [NoObs EXCEPT !.op = "refresh_context"]
    /\ UNCHANGED <<file, cached_context, file_modified_time, api_key>>

Next ==
    \/ \E area \in AreaInputs, t \in Times, trace \in EngineTraces :
          GetRecommendations(area, t, trace)
    \/ RefreshContext

Spec == Init /\ [][Next]_vars

\* ------------------------------------------------------------------------
\* The gateway alone: KiroClient.query and clear_cache called directly, and
\* clear_cache reached through the engine's refresh_context
\* ------------------------------------------------------------------------
PromptCp == BuildPrompt(Context(DocGood), UserQuery(Cp, Evening, Momos, Budget)).val

\* health_check's prompt: it has no "Area:" line
PromptTest == <<"Test connection">>

Prompts == {PromptCp, PromptTest, None}

InitGateway ==
    /\ file = File(TRUE, DocGood, 1)
    /\ cached_context = NoContext
    /\ file_modified_time = NoTime
    /\ context_cache = NoContext
    /\ api_key \in BOOLEAN
    /\ response_cache = <<>>
    /\ obs = NoObs

KiroQuery(prompt, trace) ==
    \E q \in {Query(api_key, response_cache, prompt, trace)} :
       /\ response_cache' = q.cache
       /\ obs' = Observed("query", <<>>, <<>>, prompt, trace,
                          Recommended(q.resp, q.raised, q.msg, "done", NoLoad, <<>>, prompt,
                                      q, q.cache, FALSE))
       /\ UNCHANGED <<file, cached_context, file_modified_time, context_cache, api_key>>

ClearCache ==
    /\ response_cache' = <<>>
    /\ obs' = [NoObs EXCEPT !.op = "clear_cache"]
    /\ UNCHANGED <<file, cached_context, file_modified_time, context_cache, api_key>>

NextGateway ==
    \/ \E prompt \in Prompts, trace \in Traces : KiroQuery(prompt, trace)
    \/ ClearCache
    \/ RefreshContext

SpecGateway == InitGateway /\ [][NextGateway]_vars

\* ------------------------------------------------------------------------
\* The loader alone: ContextLoader.load_product_context called directly while
\* the document's file is written, touched and removed
\* ------------------------------------------------------------------------
ObservedLoad(ld) ==
    [op |-> "load_product_context", raised |-> ld.raised, etype |-> ld.etype,
     msg |-> ld.msg, val |-> ld.val, parsed |-> ld.parsed]

InitLoader ==
    /\ file \in {File(TRUE, c, 1) : c \in LoaderContents} \cup {File(FALSE, DocBlank, 1)}
    /\ cached_context = NoContext
    /\ file_modified_time = NoTime
    /\ context_cache = NoContext
    /\ api_key = FALSE
    /\ response_cache = <<>>
    /\ obs = [op |-> "init"]

LoadContext ==
    \E ld \in {LoadProductContext(file, cached_context, file_modified_time)} :
       /\ cached_context' = ld.cached
       /\ file_modified_time' = ld.mtime
       /\ obs' = ObservedLoad(ld)
       /\ UNCHANGED <<file, context_cache, api_key, response_cache>>

\* the file written with content c, its modification time becoming t (which
\* is the old time when the clock has not ticked since)
WriteFile(c, t) ==
    /\ file' = File(TRUE, c, t)
    /\ obs' = [op |-> "write"]
    /\ UNCHANGED <<cached_context, file_modified_time, context_cache, api_key,
                   response_cache>>

RemoveFile ==
    /\ file.exists
    /\ file' = File(FALSE, DocBlank, 1)
    /\ obs' = [op |-> "remove"]
    /\ UNCHANGED <<cached_context, file_modified_time, context_cache, api_key,
                   response_cache>>

NextLoader ==
    \/ LoadContext
    \/ \E c \in LoaderContents, t \in 1..MaxTime : WriteFile(c, t)
    \/ RemoveFile

SpecLoader == InitLoader /\ [][NextLoader]_vars

\* ------------------------------------------------------------------------
\* The area resolution alone: _process_area_input applied to the loaded
\* document and every short string over a few characters
\* ------------------------------------------------------------------------
AreaChars == {"K", "k", "B", "b", " "}

AreaStrings ==
    UNION {[1..n -> AreaChars] : n \in 0..MaxLen} \cup {Cp, <<"c", "p">>, None, Number}

InitArea ==
    /\ file \in {File(TRUE, DocGood, 1), File(TRUE, DocNested, 1)}
    /\ cached_context = Context(file.content)
    /\ file_modified_time = 1
    /\ context_cache = Context(file.content)
    /\ api_key = FALSE
    /\ response_cache = <<>>
    /\ obs = [op |-> "init"]

ProcessArea(area) ==
    /\ obs' = [op |-> "process_area_input", area |-> area,
               out |-> ProcessAreaInput(area, context_cache)]
    /\ UNCHANGED <<file, cached_context, file_modified_time, context_cache, api_key,
                   response_cache>>

NextArea == \E area \in AreaStrings : ProcessArea(area)

SpecArea == InitArea /\ [][NextArea]_vars

\* ------------------------------------------------------------------------
\* The validators called directly, and get_recommendations called with the
\* empty area they reject
\* ------------------------------------------------------------------------
\* member, equal ignoring case, padded, partial, unknown, empty, white space,
\* None, not a string
ValidateAreas ==
    {Cp, <<"c", "p">>, <<" ">> \o Cp, <<"K">>, <<"Z", "z">>, <<>>, <<" ">>, None, Number}

ValidateTimes == {Evening, <<"Late Night">>, <<"evening">>, None}

ValidateFoods == {Momos, <<>>}

ValidateBudgets == {Budget, <<"Premium">>, <<"budget-friendly">>}

InitValidate ==
    /\ file \in {File(TRUE, c, 1) : c \in {DocGood, DocNested, DocNoGuide}}
                \cup {File(FALSE, DocBlank, 1)}
    /\ cached_context = NoContext
    /\ file_modified_time = NoTime
    /\ context_cache = NoContext
    /\ api_key = FALSE
    /\ response_cache = <<>>
    /\ obs = [op |-> "init"]

ObservedValidate(op, area, time_preference, food_preferences, budget_category, loaded, raised, errors) ==
    [op |-> op, area |-> area, time_preference |-> time_preference,
     food_preferences |-> food_preferences, budget_category |-> budget_category,
     loaded |-> loaded, raised |-> raised, errors |-> errors]

EngineValidate(area, time_preference, food_preferences, budget_category) ==
    \E ld \in {GetContext(context_cache, file, cached_context, file_modified_time)} :
       /\ context_cache' = ld.val
       /\ cached_context' = ld.cached
       /\ file_modified_time' = ld.mtime
       /\ obs' = ObservedValidate("validate_user_input", area, time_preference,
                                  food_preferences, budget_category, ~ld.raised, FALSE,
                                  ValidateUserInput(area, time_preference, food_preferences,
                                                    budget_category, ld))
       /\ UNCHANGED <<file, api_key, response_cache>>

SimpleValidate(area, time_preference, food_preferences, budget_category) ==
    /\ obs' = ObservedValidate("simple_validate_user_input", area, time_preference,
                               food_preferences, budget_category, file.exists, FALSE,
                               SimpleValidateUserInput(area, time_preference, food_preferences,
                                                       budget_category, SimpleAreas(file)))
    /\ UNCHANGED <<file, cached_context, file_modified_time, context_cache, api_key,
                   response_cache>>

AppValidate(area, time_preference, food_preferences, budget_category) ==
    \E r \in {AppValidateUserInput(area, time_preference, food_preferences, budget_category)} :
       /\ obs' = ObservedValidate("app_validate_user_input", area, time_preference,
                                  food_preferences, budget_category, TRUE, r.raised, r.val)
       /\ UNCHANGED <<file, cached_context, file_modified_time, context_cache, api_key,
                      response_cache>>

NextValidate ==
    \/ \E area \in ValidateAreas, t \in ValidateTimes, fp \in ValidateFoods,
          b \in ValidateBudgets : EngineValidate(area, t, fp, b)
    \/ \E area \in ValidateAreas, t \in ValidateTimes, fp \in ValidateFoods,
          b \in ValidateBudgets : SimpleValidate(area, t, fp, b)
    \/ \E area \in ValidateAreas, t \in ValidateTimes, fp \in ValidateFoods,
          b \in ValidateBudgets : AppValidate(area, t, fp, b)
    \/ \E area \in {<<>>, None}, t \in Times, trace \in EngineTraces :
          GetRecommendations(area, t, trace)

SpecValidate == InitValidate /\ [][NextValidate]_vars

\* ------------------------------------------------------------------------
\* The prompt builder alone: PromptBuilder.build_prompt called repeatedly while
\* the loader and the engine's caches change in between
\* ------------------------------------------------------------------------
\* a builder that stamps the prompt with the loader's state
BuildPromptEffectStamped(context, q) ==
    [context |-> context, user_query |-> q,
     out |-> IF BuildPrompt(context, q).raised THEN BuildPrompt(context, q)
             ELSE Ok(BuildPrompt(context, q).val
                     \o (IF file_modified_time = NoTime THEN <<"\n", "Generated: never">>
                         ELSE <<"\n", "Generated: loaded">>)),
     context_after |-> context, user_query_after |-> q]

\* prompt_builder.py lines 25-54 with everything they call: what the call
\* returns or raises (out) and what its two arguments hold afterwards.  No
\* statement of the builder assigns to the context, to the query or to self.
BuildPromptEffect(context, q) ==
    [context |-> context, user_query |-> q, out |-> BuildPrompt(context, q),
     context_after |-> context, user_query_after |-> q]

NoCall == [context |-> NoContext]

PromptContexts == {Context(DocGood), Context(DocNested), NoContext}

PromptQueries ==
    {UserQuery(a, t, fp, Budget) : a \in {Cp, <<>>}, t \in {Evening, None}, fp \in {Momos, <<>>}}

\* obs.last is the latest call of build_prompt, obs.kept an earlier one that is
\* remembered; obs.between tells that something was called after kept and
\* before last; obs.touched that the loader or the caches were used since last
ObservedPrompt(op, kept, last, between, touched) ==
    [op |-> op, kept |-> kept, last |-> last, between |-> between, touched |-> touched]

InitPrompt ==
    /\ file = File(TRUE, DocGood, 1)
    /\ cached_context = NoContext
    /\ file_modified_time = NoTime
    /\ context_cache = NoContext
    /\ api_key = FALSE
    /\ response_cache = <<>>
    /\ obs = ObservedPrompt("init", NoCall, NoCall, FALSE, FALSE)

BuildPromptCall(context, q) ==
    /\ \/ obs' = ObservedPrompt("build_prompt", obs.kept, BuildPromptEffect(context, q),
                                obs.kept # NoCall /\ obs.last # NoCall, FALSE)
       \/ obs' = ObservedPrompt("build_prompt", obs.last, BuildPromptEffect(context, q),
                                obs.touched, FALSE)
    /\ UNCHANGED <<file, cached_context, file_modified_time, context_cache, api_key,
                   response_cache>>

PromptLoadContext ==
    \E ld \in {LoadProductContext(file, cached_context, file_modified_time)} :
       /\ cached_context' = ld.cached
       /\ file_modified_time' = ld.mtime
       /\ context_cache' = ld.val
       /\ obs' = [obs EXCEPT !.op = "load_product_context", !.touched = TRUE]
       /\ UNCHANGED <<file, api_key, response_cache>>

PromptRefreshContext ==
    /\ context_cache' = NoContext
    /\ response_cache' = <<>>
    /\ obs' = [obs EXCEPT !.op = "refresh_context", !.touched = TRUE]
    /\ UNCHANGED <<file, cached_context, file_modified_time, api_key>>

NextPrompt ==
    \/ \E context \in PromptContexts, q \in PromptQueries : BuildPromptCall(context, q)
    \/ PromptLoadContext
    \/ PromptRefreshContext

SpecPrompt == InitPrompt /\ [][NextPrompt]_vars

\* ------------------------------------------------------------------------
\* The pipeline with a service whose replies hold no or incomplete
\* recommendations
\* ------------------------------------------------------------------------
\* an area with foods, the same padded, the area without foods and a part of its
\* name, an unknown area
FallbackAreas == {Cp, <<" ">> \o Cp, Kb, <<"K">>, <<"Z", "z">>}

FallbackTimes == {Evening, <<"Morning">>, None}

FallbackTraces ==
    {[i \in 1..max_retries |-> Outcome("ok", r)] : r \in {ReplyEmpty, ReplyBlue}}

InitFallback ==
    /\ file \in {File(TRUE, DocGood, 1), File(TRUE, DocFoods, 1)}
    /\ cached_context = NoContext
    /\ file_modified_time = NoTime
    /\ context_cache = NoContext
    /\ api_key = TRUE
    /\ response_cache = <<>>
    /\ obs = NoObs

NextFallback ==
    \/ \E area \in FallbackAreas, t \in FallbackTimes, trace \in FallbackTraces :
          GetRecommendations(area, t, trace)
    \/ RefreshContext

SpecFallback == InitFallback /\ [][NextFallback]_vars

\* ------------------------------------------------------------------------
\* Two callers running get_recommendations at once for one request, from the
\* gateway's cache lookup to the end of the post-processing.  A step is one
\* access to what the callers share: the response cache and the response
\* objects it holds.  Objects are named by the caller that interpreted them.
\* ------------------------------------------------------------------------
Callers == {1, 2}

ConcQuery == UserQuery(Cp, Evening, Momos, Budget)

\* what the service does for one caller: a reply with fields to clean, a
\* complete reply, a reply without recommendations, or a refusal
ConcTraces ==
    {[i \in 1..max_retries |-> o] :
        o \in {Outcome("ok", r) : r \in {ReplyBlue, ReplyOther, ReplyEmpty}}
              \cup {Outcome("other", NoReply)}}

\* obs of this specification:
\*   pc       where each caller is
\*   obj      the object a caller holds (0: one of its own that nobody shares)
\*   loc      the value of a caller's own object
\*   heap     the value of the object each caller interpreted and stored
\*   orig     that object as it was interpreted
\*   ref      the object the cache entry refers to (0: no entry)
\*   seen     the value of the cache entry when a caller found it
\*   attempts the requests a caller sent
\*   result   the response a caller was given
InitConcurrent ==
    /\ file = File(TRUE, DocGood, 1)
    /\ cached_context = Context(DocGood)
    /\ file_modified_time = 1
    /\ context_cache = Context(DocGood)
    /\ api_key = TRUE
    /\ response_cache = <<>>
    /\ obs = [op |-> "concurrent",
              pc |-> [t \in Callers |-> "check"],
              obj |-> [t \in Callers |-> 0],
              loc |-> [t \in Callers |-> NoResponse],
              heap |-> [t \in Callers |-> NoResponse],
              orig |-> [t \in Callers |-> NoResponse],
              ref |-> 0,
              seen |-> [t \in Callers |-> NoResponse],
              attempts |-> [t \in Callers |-> 0],
              result |-> [t \in Callers |-> NoResponse]]

\* the value of the object caller t holds
Held(t) == IF obs.obj[t] = 0 THEN obs.loc[t] ELSE obs.heap[obs.obj[t]]

\* kiro_client.py lines 68-70: the lookup; a hit returns the cached object
ConcCheck(t) ==
    /\ obs.pc[t] = "check"
    /\ IF CacheHit(response_cache, PromptCp)
       THEN obs' = [obs EXCEPT !.pc[t] = "clean", !.obj[t] = obs.ref,
                               !.seen[t] = response_cache[GetCacheKey(PromptCp)]]
       ELSE obs' = [obs EXCEPT !.pc[t] = "send"]
    /\ UNCHANGED <<file, cached_context, file_modified_time, context_cache, api_key,
                   response_cache>>

\* kiro_client.py lines 73-76 and 83-85: the request and the interpretation,
\* both on the caller's own data; a failure gives the caller a fallback response
ConcSend(t, trace) ==
    /\ obs.pc[t] = "send"
    /\ \E sent \in {SendKiroRequest(api_key, PromptCp, trace)} :
          \E parsed \in {IF sent.raised THEN Raise(sent.msg) ELSE ParseResponse(sent.val)} :
             obs' = [obs EXCEPT !.attempts[t] = sent.attempts,
                                !.loc[t] = IF parsed.raised
                                           THEN CreateFallbackResponse(parsed.msg)
                                           ELSE parsed.val,
                                !.pc[t] = IF parsed.raised THEN "clean" ELSE "store"]
    /\ UNCHANGED <<file, cached_context, file_modified_time, context_cache, api_key,
                   response_cache>>

\* kiro_client.py lines 79-81: the interpreted object put into the cache and
\* returned
ConcStore(t) ==
    /\ obs.pc[t] = "store"
    /\ response_cache' = CacheStore(response_cache, PromptCp, obs.loc[t])
    /\ obs' = [obs EXCEPT !.heap[t] = obs.loc[t], !.orig[t] = obs.loc[t], !.ref = t,
                          !.obj[t] = t, !.pc[t] = "clean"]
    /\ UNCHANGED <<file, cached_context, file_modified_time, context_cache, api_key>>

\* the cache after the object o was given the value v
CacheAfterWrite(o, v) ==
    IF o # 0 /\ obs.ref = o THEN [response_cache EXCEPT ![GetCacheKey(PromptCp)] = v]
    ELSE response_cache

\* recommendation_engine.py lines 245-263: without recommendations a new
\* fallback object is returned; otherwise the cleaned list is assigned to the
\* object the gateway returned
ConcClean(t) ==
    /\ obs.pc[t] = "clean"
    /\ IF Held(t).recommendations = <<>>
       THEN /\ obs' = [obs EXCEPT !.pc[t] = "done",
                                  !.result[t] =
                                     CreateFallbackRecommendations(ConcQuery, context_cache).val]
            /\ UNCHANGED response_cache
       ELSE \E v \in {[Held(t) EXCEPT !.recommendations =
                          [i \in 1..Len(Held(t).recommendations) |->
                              CleanRecommendation(Held(t).recommendations[i], ConcQuery)]]} :
               /\ obs' = [obs EXCEPT !.pc[t] = "area",
                                     !.loc[t] = IF obs.obj[t] = 0 THEN v ELSE @,
                                     !.heap = IF obs.obj[t] = 0 THEN @
                                              ELSE [@ EXCEPT ![obs.obj[t]] = v]]
               /\ response_cache' = CacheAfterWrite(obs.obj[t], v)
    /\ UNCHANGED <<file, cached_context, file_modified_time, context_cache, api_key>>

\* recommendation_engine.py lines 266-269: the area assigned to the same object,
\* which is returned
ConcArea(t) ==
    /\ obs.pc[t] = "area"
    /\ \E v \in {IF ~Truthy(Held(t).area) \/ Held(t).area = <<"Unknown Area">>
                 THEN [Held(t) EXCEPT !.area = ConcQuery.area] ELSE Held(t)} :
          /\ obs' = [obs EXCEPT !.pc[t] = "done", !.result[t] = v,
                                !.loc[t] = IF obs.obj[t] = 0 THEN v ELSE @,
                                !.heap = IF obs.obj[t] = 0 THEN @
                                         ELSE [@ EXCEPT ![obs.obj[t]] = v]]
          /\ response_cache' = CacheAfterWrite(obs.obj[t], v)
    /\ UNCHANGED <<file, cached_context, file_modified_time, context_cache, api_key>>

NextConcurrent ==
    \/ \E t \in Callers : ConcCheck(t)
    \/ \E t \in Callers, trace \in ConcTraces : ConcSend(t, trace)
    \/ \E t \in Callers : ConcStore(t)
    \/ \E t \in Callers : ConcClean(t)
    \/ \E t \in Callers : ConcArea(t)

SpecConcurrent == InitConcurrent /\ [][NextConcurrent]_vars

\* ------------------------------------------------------------------------
\* The interpreter alone: KiroClient._parse_response applied to replies whose
\* recommendations are every short list of a few kinds of entry
\* ------------------------------------------------------------------------
\* a complete object, an object without any key, an object with an unknown
\* rating, and a value that is no object
ParseEntryKinds ==
    {Entry(TRUE, <<"Kulfi">>, <<"Circus">>, <<"₹40-80">>, <<"Popular">>, <<"Tip">>, <<"Green">>),
     Entry(TRUE, Absent, Absent, Absent, Absent, Absent, Absent),
     Entry(TRUE, <<"Chaat">>, <<>>, Absent, None, Absent, <<"Blue">>),
     Entry(FALSE, Absent, Absent, Absent, Absent, Absent, Absent)}

ParseReplies ==
    {RawReply(w[1], "object",
              JsonData(Cp, [kind |-> "list", items |-> items],
                       [present |-> FALSE, items |-> <<>>], Absent),
              w[2]) :
        items \in UNION {[1..n -> ParseEntryKinds] : n \in 0..MaxLen},
        w \in {<< <<>>, <<>> >>, << <<FenceJson, "\n">>, <<"\n", Fence>> >>}}

InitParse ==
    /\ file = File(TRUE, DocGood, 1)
    /\ cached_context = NoContext
    /\ file_modified_time = NoTime
    /\ context_cache = NoContext
    /\ api_key = TRUE
    /\ response_cache = <<>>
    /\ obs = [op |-> "init"]

ParseReply(raw) ==
    /\ obs' = [op |-> "parse_response", raw |-> raw, out |-> ParseResponse(raw)]
    /\ UNCHANGED <<file, cached_context, file_modified_time, context_cache, api_key,
                   response_cache>>

NextParse == \E raw \in ParseReplies : ParseReply(raw)

SpecParse == InitParse /\ [][NextParse]_vars

\* ------------------------------------------------------------------------
\* The demo backend: SimpleRecommendationEngine.get_recommendations
\* ------------------------------------------------------------------------
\* the three areas with their own recommendations, another built-in area, an
\* unknown one, the empty string, None, a number
SimpleAreaInputs == {Cp, Ln, Cc, Kb, <<"Z", "z">>, <<>>, None, Number}

InitSimple ==
    /\ file \in {File(TRUE, c, 1) : c \in {DocGood, DocNested, DocFoods}}
                \cup {File(FALSE, DocBlank, 1)}
    /\ cached_context = NoContext
    /\ file_modified_time = NoTime
    /\ context_cache = NoContext
    /\ api_key = FALSE
    /\ response_cache = <<>>
    /\ obs = [op |-> "init"]

SimpleGet(area, time_preference, food_preferences, budget_category) ==
    /\ obs' = [op |-> "simple_get_recommendations", area |-> area,
               time_preference |-> time_preference,
               food_preferences |-> food_preferences, budget_category |-> budget_category,
               resp |-> SimpleGetRecommendations(area, time_preference, food_preferences,
                                                 budget_category, SimpleAreas(file))]
    /\ UNCHANGED <<file, cached_context, file_modified_time, context_cache, api_key,
                   response_cache>>

NextSimple ==
    \E area \in SimpleAreaInputs, t \in {Evening, None, Number}, fp \in {Momos, <<>>},
       b \in {Budget, None} : SimpleGet(area, t, fp, b)

SpecSimple == InitSimple /\ [][NextSimple]_vars

\* ------------------------------------------------------------------------
\* The engine's document cache: the four handlers that read the document,
\* refresh_context, and the document's file written and removed in between
\* ------------------------------------------------------------------------
\* "Alaknanda"
Al == <<"A", "l">>

\* get_areas_list over the outcome `ld` of _get_context: the document's areas,
\* or the built-in names when the document did not load
GetAreasList(ld) == IF ld.raised THEN <<Cp, Ln, Cc, Kb, Gk, Al>> ELSE ld.val.areas

\* get_area_info over the outcome `ld` of _get_context (the document's
\* time_recommendations, which the handler passes on as they are, are left out)
GetAreaInfo(area, ld) ==
    IF ld.raised
    THEN [area |-> area, available |-> FALSE, error |-> ld.msg, food_options |-> <<>>]
    ELSE [area |-> area, available |-> area \in Range(ld.val.areas), error |-> Absent,
          food_options |-> FoodOptions(ld.val, area)]

DocumentContents == {DocGood, DocFoods, DocBlank}

InitDocument ==
    /\ file \in {File(TRUE, c, 1) : c \in DocumentContents}
    /\ cached_context = NoContext
    /\ file_modified_time = NoTime
    /\ context_cache = NoContext
    /\ api_key = TRUE
    /\ response_cache = <<>>
    /\ obs = [op |-> "init"]

EngineAreasList ==
    \E ld \in {GetContext(context_cache, file, cached_context, file_modified_time)} :
       /\ context_cache' = ld.val
       /\ cached_context' = ld.cached
       /\ file_modified_time' = ld.mtime
       /\ obs' = [op |-> "get_areas_list", loaded |-> ~ld.raised, val |-> GetAreasList(ld)]
       /\ UNCHANGED <<file, api_key, response_cache>>

EngineAreaInfo(area) ==
    \E ld \in {GetContext(context_cache, file, cached_context, file_modified_time)} :
       /\ context_cache' = ld.val
       /\ cached_context' = ld.cached
       /\ file_modified_time' = ld.mtime
       /\ obs' = [op |-> "get_area_info", area |-> area, loaded |-> ~ld.raised,
                  val |-> GetAreaInfo(area, ld)]
       /\ UNCHANGED <<file, api_key, response_cache>>

NextDocument ==
    \/ \E area \in {Cp, <<"Z", "z">>}, trace \in FallbackTraces :
          GetRecommendations(area, Evening, trace)
    \/ EngineAreasList
    \/ \E area \in {Cp, Kb, <<"Z", "z">>, None} : EngineAreaInfo(area)
    \/ \E area \in {Cp, <<"Z", "z">>, <<>>}, t \in {Evening, <<"Noon">>} :
          EngineValidate(area, t, Momos, Budget)
    \/ RefreshContext
    \/ \E c \in DocumentContents, t \in 1..MaxTime : WriteFile(c, t)
    \/ RemoveFile

SpecDocument == InitDocument /\ [][NextDocument]_vars

\* ------------------------------------------------------------------------
\* The ratings: get_recommendations over replies whose entries carry a null,
\* numeric, unknown, known or missing hygiene_rating, over replies without
\* recommendations or that are no JSON, over a refusing service, with and
\* without the document and the credential (the substitute reply of a gateway
\* without credential takes nothing from the document's food list, so that
\* document is tried with the credential only)
\* ------------------------------------------------------------------------
ReplyRatings ==
    RawReply(<<>>, "object",
             JsonData(Cp,
                      [kind |-> "list",
                       items |-> << Entry(TRUE, <<"Chaat">>, <<"Lane">>, <<"Rs.60">>, <<"Busy">>,
                                          <<"Tip">>, None),
                                    Entry(TRUE, <<"Kulfi">>, <<"Lane">>, <<"Rs.40">>, <<"Busy">>,
                                          <<"Tip">>, Number),
                                    Entry(TRUE, <<"Tikki">>, <<"Lane">>, <<"Rs.30">>, <<"Busy">>,
                                          <<"Tip">>, <<"green">>),
                                    Entry(TRUE, <<"Lassi">>, <<"Lane">>, <<"Rs.50">>, <<"Busy">>,
                                          <<"Tip">>, <<"Red">>),
                                    Entry(TRUE, <<"Jalebi">>, <<"Lane">>, <<"Rs.20">>, <<"Busy">>,
                                          <<"Tip">>, Absent) >>],
                      [present |-> FALSE, items |-> <<>>], Absent),
             <<>>)

RatingTraces ==
    {[i \in 1..max_retries |-> o] :
        o \in {Outcome("ok", r) : r \in {ReplyRatings, ReplyBlue, ReplyEmpty, ReplyGarbage}}
              \cup {Outcome("other", NoReply)}}

InitRating ==
    /\ file \in {File(TRUE, DocGood, 1), File(TRUE, DocFoods, 1), File(FALSE, DocBlank, 1)}
    /\ cached_context = NoContext
    /\ file_modified_time = NoTime
    /\ context_cache = NoContext
    /\ api_key \in BOOLEAN
    /\ api_key \/ file.content # DocFoods
    /\ response_cache = <<>>
    /\ obs = NoObs

NextRating ==
    \/ \E area \in {Cp, <<"Z", "z">>, <<>>, Number}, t \in {Evening, None},
          trace \in RatingTraces : GetRecommendations(area, t, trace)
    \/ RefreshContext

SpecRating == InitRating /\ [][NextRating]_vars

\* ------------------------------------------------------------------------
\* Properties
\* ------------------------------------------------------------------------
Last(t) == t[Len(t)]

\* the gateway's fallback set: area "Error", one recommendation rated Yellow
\* whose tip is "Error: " followed by a message
IsFallback(resp) ==
    /\ resp.area = <<"Error">>
    /\ Len(resp.recommendations) = 1
    /\ resp.recommendations[1].hygiene_rating = <<"Yellow">>
    /\ Len(resp.recommendations[1].local_tip) >= 2
    /\ Head(resp.recommendations[1].local_tip) = "Error: "

\* the service's last word on the attempts made is no HTTP 200 with a reply
\* that holds a JSON object
ServiceFailed(t) ==
    t # <<>> /\ (Last(t).kind # "ok" \/ Last(t).reply \in {ReplyGarbage, ReplyArray})

\* C1: KiroClient.query never raises; whenever sending or parsing failed (all
\* attempts timed out, connection errors, HTTP 429, another status, an
\* unparseable 200 reply, a prompt that cannot be encoded) it returns the
\* fallback set: area "Error", one recommendation, rated Yellow, the tip
\* carrying the error message.
C1_QueryNeverRaises ==
    obs.op = "query" =>
        /\ ~obs.raised
        /\ (ServiceFailed(obs.trace) \/ obs.sendFailed \/ obs.parseFailed \/ ~IsStr(obs.prompt))
              => IsFallback(obs.resp) /\ obs.fellback

\* a query whose three attempts all timed out came back with the fallback set
C1_Witness ==
    /\ obs.op = "query"
    /\ Len(obs.trace) = 3
    /\ \A i \in 1..3 : obs.trace[i].kind = "timeout"
    /\ IsFallback(obs.resp)

\* the uniform error set of the engine
IsErrorResponse(resp) ==
    /\ Len(resp.recommendations) = 1
    /\ resp.recommendations[1].hygiene_rating = <<"Red">>
    /\ resp.local_context
         = <<"Sorry, we're having technical difficulties. Please try again later.">>

\* C2: get_recommendations never raises; a document that cannot be loaded, an
\* area that is empty or no string, a time the prompt builder or the
\* post-processing cannot lower-case all end in the except branch, and the
\* response built there has one recommendation rated Red and the fixed apology.
C2_GetRecommendationsTotal ==
    obs.op = "get_recommendations" =>
        /\ ~obs.raised
        /\ Len(obs.resp.recommendations) >= 1
        /\ obs.caught => IsErrorResponse(obs.resp)
        /\ (~file.exists \/ file.content \in {DocBlank, DocNoGuide})
              => obs.caught /\ obs.stage = "context"
        /\ (file.exists /\ file.content \in {DocGood, DocAreaLine}
              /\ (obs.area \in {<<>>, Number} \/ obs.time = Number))
              => obs.caught /\ obs.stage \in {"area", "prompt"}

\* the post-processing raised (an empty reply, foods listed for the area, a
\* time that is None) and the except branch answered
C2_Witness ==
    /\ obs.op = "get_recommendations"
    /\ obs.caught
    /\ obs.stage = "postprocess"
    /\ IsErrorResponse(obs.resp)

\* the tip of the only recommendation of a fallback or error response
Tip(resp) == resp.recommendations[1].local_tip

\* The area get_recommendations answers with: the area as it was passed in when
\* the except branch answered; else the area the engine resolved when the
\* gateway's response had no recommendations, no area or "Unknown Area"; else
\* the area of the gateway's response.
AnsweredArea ==
    IF obs.caught THEN obs.area
    ELSE IF obs.gw.recommendations = <<>> \/ ~Truthy(obs.gw.area)
            \/ obs.gw.area = <<"Unknown Area">>
    THEN obs.resolved
    ELSE obs.gw.area

\* C3 as stated: every response of get_recommendations has at least one
\* recommendation, and its area is the requested area whenever that is
\* non-empty.
C3_AreaIsRequested ==
    obs.op = "get_recommendations" =>
        /\ Len(obs.resp.recommendations) >= 1
        /\ Truthy(obs.area) => obs.resp.area = obs.area

\* C3 amended: every response of get_recommendations has at least one
\* recommendation; its area is the requested area when an exception was caught,
\* "Error" when the gateway fell back, and otherwise the area the gateway's
\* response names, or the area the engine resolved (trimmed, matched to a known
\* area exactly, case-insensitively or by substring) when that response names
\* none.
C3_AreaAsAnswered ==
    obs.op = "get_recommendations" =>
        /\ Len(obs.resp.recommendations) >= 1
        /\ obs.resp.area = AnsweredArea
        /\ (~obs.caught /\ obs.fellback) => obs.resp.area = <<"Error">>
        /\ (~obs.caught /\ obs.called /\ ~obs.fellback /\ obs.trace # <<>>
              /\ Last(obs.trace).reply = ReplyOther)
              => obs.resp.area = <<"Karol Bagh">>

\* a request for a non-empty area whose gateway call failed is answered with
\* the area "Error"
C3_Witness ==
    /\ obs.op = "get_recommendations"
    /\ ~obs.caught
    /\ obs.fellback
    /\ IsStr(obs.area) /\ Truthy(obs.area)
    /\ Len(obs.resp.recommendations) >= 1
    /\ obs.resp.area = <<"Error">>

\* the service answered HTTP 429 on all three attempts of the query
ThriceRateLimited ==
    /\ obs.op = "query"
    /\ Len(obs.trace) = max_retries
    /\ \A i \in 1..max_retries : obs.trace[i].kind = "s429"

\* C4 as stated: after HTTP 429 on three consecutive attempts the gateway has
\* given up after 3 attempts, has waited 1s, 2s and 4s, and query returns the
\* fallback set with the rate-limit message in the tip.
C4_BackoffOneTwoFour ==
    ThriceRateLimited =>
        /\ obs.attempts = 3
        /\ obs.sleeps = <<1, 2, 4>>
        /\ IsFallback(obs.resp)
        /\ "Rate limit exceeded" \in Range(Tip(obs.resp))

\* C4 amended: a query never stops on an HTTP 429 before its third attempt;
\* after HTTP 429 on three consecutive attempts it has made 3 attempts and has
\* waited 1s and 2s (no wait follows the third), and query returns the
\* fallback set with the rate-limit message in the tip.
C4_BackoffOneTwo ==
    obs.op = "query" =>
        /\ (obs.trace # <<>> /\ Last(obs.trace).kind = "s429")
              => Len(obs.trace) = max_retries
        /\ ThriceRateLimited =>
              /\ obs.attempts = 3
              /\ obs.sleeps = <<1, 2>>
              /\ obs.sendFailed
              /\ IsFallback(obs.resp)
              /\ "Rate limit exceeded" \in Range(Tip(obs.resp))

\* three HTTP 429 in a row, answered by the fallback set
C4_Witness ==
    /\ ThriceRateLimited
    /\ obs.attempts = 3
    /\ Len(obs.sleeps) = 2
    /\ IsFallback(obs.resp)

\* the message of line 153 for a last error
BudgetUsed(last_error) ==
    <<"Error: ", "Failed to get response from Kiro after 3 attempts. Last error: ",
      last_error>>

\* C5: after a timeout or a connection error on an attempt before the third
\* the gateway waits 1s, whatever the attempt, and tries again; after one on
\* the third attempt it fails with the last error ("Request timeout" or
\* "Connection error"), which query turns into the fallback set; an HTTP 200 on
\* any attempt ends the retries and its reply is what query interprets.
C5_TransportRetry ==
    obs.op = "query" =>
        /\ Len(obs.trace) <= max_retries
        /\ obs.attempts = Len(obs.trace)
        /\ \A i \in 1..Len(obs.trace) :
              /\ (obs.trace[i].kind \in {"timeout", "conn"} /\ i < max_retries)
                    => /\ Len(obs.trace) > i
                       /\ Len(obs.sleeps) >= i
                       /\ obs.sleeps[i] = 1
              /\ (obs.trace[i].kind \in {"timeout", "conn"} /\ i = max_retries)
                    => /\ Len(obs.sleeps) = max_retries - 1
                       /\ obs.sendFailed
                       /\ IsFallback(obs.resp)
                       /\ Tip(obs.resp)
                            = BudgetUsed(IF obs.trace[i].kind = "timeout"
                                         THEN "Request timeout" ELSE "Connection error")
              /\ obs.trace[i].kind = "ok"
                    => /\ i = Len(obs.trace)
                       /\ ~obs.sendFailed
                       /\ obs.parseFailed = ParseResponse(obs.trace[i].reply).raised
                       /\ ~obs.parseFailed
                             => obs.resp = ParseResponse(obs.trace[i].reply).val

\* a timeout, then two connection errors: two waits of 1s and the fallback set
\* carrying "Connection error"
C5_Witness ==
    /\ obs.op = "query"
    /\ Len(obs.trace) = 3
    /\ obs.trace[1].kind = "timeout"
    /\ obs.trace[2].kind = "conn"
    /\ obs.trace[3].kind = "conn"
    /\ obs.sleeps = <<1, 1>>
    /\ Tip(obs.resp) = BudgetUsed("Connection error")

\* C6: a status other than 200 and 429 ends the query on the attempt that
\* received it: that attempt is the last one, no delay follows it, and query
\* returns the fallback set.
C6_OtherStatusFailsAtOnce ==
    obs.op = "query" =>
        \A i \in 1..Len(obs.trace) :
            obs.trace[i].kind = "other"
               => /\ i = Len(obs.trace)
                  /\ obs.attempts = i
                  /\ Len(obs.sleeps) = i - 1
                  /\ obs.sendFailed
                  /\ IsFallback(obs.resp)

\* HTTP 429 and then HTTP 500: one wait, two attempts, the fallback set
C6_Witness ==
    /\ obs.op = "query"
    /\ Len(obs.trace) = 2
    /\ obs.trace[1].kind = "s429"
    /\ obs.trace[2].kind = "other"
    /\ obs.sleeps = <<1>>
    /\ IsFallback(obs.resp)

\* C7: a query that did not fall back leaves its result stored under the
\* prompt's fingerprint; a query on a prompt whose fingerprint is stored returns
\* the stored result, makes no attempt and does not call the sender; and no
\* query changes the result stored for another prompt.
C7_CacheHitReturnsStored ==
    [][ obs'.op = "query" =>
          /\ ~obs'.fellback
                => /\ GetCacheKey(obs'.prompt) \in DOMAIN response_cache'
                   /\ response_cache'[GetCacheKey(obs'.prompt)] = obs'.resp
          /\ (IsStr(obs'.prompt) /\ GetCacheKey(obs'.prompt) \in DOMAIN response_cache)
                => /\ obs'.resp = response_cache[GetCacheKey(obs'.prompt)]
                   /\ obs'.hit
                   /\ ~obs'.called
                   /\ obs'.attempts = 0
                   /\ response_cache' = response_cache
          /\ \A k \in DOMAIN response_cache :
                k \in DOMAIN response_cache' /\ response_cache'[k] = response_cache[k]
      ]_vars

\* a query answered from the cache while the result of another prompt is
\* stored beside it
C7_Witness ==
    /\ obs.op = "query"
    /\ obs.hit
    /\ ~obs.called
    /\ Cardinality(DOMAIN response_cache) = 2

\* C8: an entry leaves the response cache only in clear_cache, called directly
\* or through refresh_context; no query removes one; after either the cache is
\* empty, and a query on an empty cache calls the sender.
C8_OnlyClearCacheRemoves ==
    [][ /\ \A k \in DOMAIN response_cache :
              k \notin DOMAIN response_cache'
                 => obs'.op \in {"clear_cache", "refresh_context"}
        /\ obs'.op = "query" => DOMAIN response_cache \subseteq DOMAIN response_cache'
        /\ obs'.op \in {"clear_cache", "refresh_context"} => DOMAIN response_cache' = {}
        /\ (DOMAIN response_cache = {} /\ obs'.op = "query" /\ IsStr(obs'.prompt))
              => obs'.called /\ ~obs'.hit
      ]_vars

\* a failed query that left both stored results in place
C8_Witness ==
    /\ obs.op = "query"
    /\ obs.fellback
    /\ Cardinality(DOMAIN response_cache) = 2

\* the fixed offline set: Momos, Chaat and Kulfi with their prices and ratings
OfflineSet(resp) ==
    /\ Len(resp.recommendations) = 3
    /\ [i \in 1..3 |-> <<resp.recommendations[i].food_name,
                         resp.recommendations[i].price_range,
                         resp.recommendations[i].hygiene_rating>>]
         = << << <<"Momos">>, <<"₹70-90">>, <<"Green">> >>,
              << <<"Chaat">>, <<"₹60-120">>, <<"Yellow">> >>,
              << <<"Kulfi">>, <<"₹40-80">>, <<"Green">> >> >>

\* a request made without a credential, on a document that loads, for a
\* non-empty area and the time "Evening"
OfflineRequest ==
    /\ obs.op = "get_recommendations"
    /\ ~api_key
    /\ file.exists /\ file.content \in {DocGood, DocAreaLine}
    /\ IsStr(obs.area) /\ Truthy(obs.area)
    /\ obs.time = Evening

\* the lines of the document that begin "Area:"
AreaLines(content) == SelectSeq(content, LAMBDA l : l.kind = "arealine")

ObjectEntries(reply) ==
    SelectSeq(reply.data.recommendations.items, LAMBDA e : e.isobj)

\* C10 as stated: in what query interprets from an HTTP 200 reply, every
\* recommendation whose entry has no hygiene_rating, or one that is not
\* "Green", "Yellow" or "Red", is rated "Yellow".
C10_ParseRepairsHygiene ==
    (obs.op = "query" /\ obs.called /\ ~obs.fellback /\ obs.trace # <<>>) =>
        LET items == ObjectEntries(Last(obs.trace).reply)
        IN /\ Len(obs.resp.recommendations) = Len(items)
           /\ \A i \in 1..Len(items) :
                 items[i].hygiene_rating \notin {<<"Green">>, <<"Yellow">>, <<"Red">>}
                    => obs.resp.recommendations[i].hygiene_rating = <<"Yellow">>

\* the service's reply reached the interpreter and it raised
ReplyUnparsed ==
    /\ obs.op = "get_recommendations"
    /\ obs.parseFailed

\* C11 as stated: when the reply cannot be parsed, the failure reaches
\* get_recommendations as an exception and is answered by the uniform error
\* response (one recommendation rated Red).
C11_ParseFailureIsErrorResponse ==
    ReplyUnparsed => obs.caught /\ IsErrorResponse(obs.resp)

\* C11 amended: when the reply cannot be parsed, query itself answers the
\* failure with its fallback set; get_recommendations sees no exception and
\* returns that set as it is: area "Error", one recommendation rated Yellow
\* whose tip carries the interpreter's message, not the uniform error response.
C11_ParseFailureIsFallback ==
    ReplyUnparsed =>
        /\ ~obs.raised /\ ~obs.caught
        /\ obs.stage = "done"
        /\ obs.fellback
        /\ IsFallback(obs.gw)
        /\ obs.resp = obs.gw
        /\ ~IsErrorResponse(obs.resp)
        /\ Tip(obs.resp)[2] \in {"Invalid JSON response from Kiro: ",
                                 "Error parsing Kiro response: "}

\* a reply that is a JSON array, answered with the gateway's fallback set
C11_Witness ==
    /\ ReplyUnparsed
    /\ Last(obs.trace).reply = ReplyArray
    /\ IsFallback(obs.resp)
    /\ Tip(obs.resp)[2] = "Error parsing Kiro response: "

\* the loader has nothing cached, or the file's time is not the one it saw
Stale == cached_context = NoContext \/ file_modified_time # file.mtime

\* C12: a load of an existing file parses the document exactly when nothing
\* is cached or the file's modification time differs from the one last seen;
\* then a successful parse replaces the cached document and the time; otherwise
\* the cached document is returned, whatever the file holds now, and the
\* loader's fields stay as they are.
C12_ReparseIffStale ==
    [][ (obs'.op = "load_product_context" /\ file.exists) =>
          /\ obs'.parsed = Stale
          /\ ~Stale => /\ ~obs'.raised
                       /\ obs'.val = cached_context
                       /\ UNCHANGED <<cached_context, file_modified_time>>
          /\ (Stale /\ ~obs'.raised)
                => /\ obs'.val = Context(file.content)
                   /\ cached_context' = Context(file.content)
                   /\ file_modified_time' = file.mtime
          /\ (Stale /\ obs'.raised) => UNCHANGED <<cached_context, file_modified_time>>
      ]_vars

\* a load answered from the cache although the file now holds another document
C12_Witness ==
    /\ obs.op = "load_product_context"
    /\ ~obs.parsed
    /\ ~obs.raised
    /\ file.exists
    /\ file.content \in {DocGood, DocUnsorted}
    /\ obs.val # Context(file.content)

\* strictly ascending in the order of sorted(): sorted and free of repeats
Ascending(xs) == \A i \in 1..(Len(xs) - 1) : StrLess(xs[i], xs[i + 1])

\* a load that parsed the document now in the file
LoadParsed ==
    /\ obs.op = "load_product_context"
    /\ file.exists
    /\ obs.parsed

\* C13 as stated: a document from which at least one area and at least one
\* guideline are extracted loads, and the loaded areas are sorted and free of
\* duplicates.
C13_LoadsWithAreaAndGuideline ==
    (LoadParsed /\ AreasFound(file.content, {"h3", "food", "bold"}) # <<>>
        /\ ExtractGuidelines(file.content) # <<>>)
       => /\ ~obs.raised
          /\ Ascending(obs.val.areas)

\* C13 amended: a document from which at least one area, at least one
\* guideline and at least one area header (a key of food_options) are
\* extracted loads, and the loaded areas are exactly the areas found, sorted
\* and free of duplicates; with areas and guidelines but no area header the
\* load fails for the missing food_options.
C13_LoadsWithAreaHeaderAndGuideline ==
    (LoadParsed /\ AreasFound(file.content, {"h3", "food", "bold"}) # <<>>
        /\ ExtractGuidelines(file.content) # <<>>)
       => IF FoodKeys(file.content) # {}
          THEN /\ ~obs.raised
               /\ obs.val.areas # <<>>
               /\ Ascending(obs.val.areas)
               /\ Range(obs.val.areas) = Range(AreasFound(file.content, {"h3", "food", "bold"}))
          ELSE /\ obs.raised
               /\ Last(obs.msg) = "Missing required context field: food_options"

\* the document with its headers out of order and repeated loaded, its four
\* finds merged into three sorted areas
C13_Witness ==
    /\ LoadParsed
    /\ file.content = DocUnsorted
    /\ ~obs.raised
    /\ ~Ascending(AreasFound(file.content, {"h3", "food", "bold"}))
    /\ obs.val.areas = <<Cp, Kb, Momo>>

\* C14 as stated: a failing load raises an error of a class of its own for
\* its cause (file missing, file blank, required field empty), never the
\* generic one.
C14_TypedLoadErrors ==
    (obs.op = "load_product_context" /\ obs.raised) => obs.etype # "Exception"

\* the members of the document's areas that equal s exactly, that equal it
\* ignoring case, and that contain it or are contained in it ignoring case
ExactAt(s) == {i \in 1..Len(context_cache.areas) : context_cache.areas[i] = s}
FoldedAt(s) == {i \in 1..Len(context_cache.areas) : Lower(context_cache.areas[i]) = Lower(s)}
PartialAt(s) ==
    {i \in 1..Len(context_cache.areas) :
        \/ IsSubstr(Lower(s), Lower(context_cache.areas[i]))
        \/ IsSubstr(Lower(context_cache.areas[i]), Lower(s))}

\* the four rules applied to the string s: the first rule that matches decides
ResolvedBy(s) ==
    IF ExactAt(s) # {} THEN s
    ELSE IF FoldedAt(s) # {} THEN context_cache.areas[MinOf(FoldedAt(s))]
    ELSE IF PartialAt(s) # {} THEN context_cache.areas[MinOf(PartialAt(s))]
    ELSE s

\* a resolution of a non-empty string
AreaResolved ==
    /\ obs.op = "process_area_input"
    /\ IsStr(obs.area) /\ obs.area # <<>>

AcceptedTimes == {<<"Morning">>, <<"Afternoon">>, <<"Evening">>, <<"Late Night">>}

AcceptedBudgets == {<<"Budget-friendly">>, <<"Mid-range">>, <<"Premium">>}

\* the engine's validator was called on text (or None) with a document that loads
Validated ==
    /\ obs.op = "validate_user_input"
    /\ obs.loaded
    /\ (IsStr(obs.area) \/ obs.area = None)

\* C16: with a loadable document, RecommendationEngine.validate_user_input
\* returns an empty mapping exactly when the area is a member of the document's
\* areas, the time is one of Morning/Afternoon/Evening/Late Night and the budget
\* is one of Budget-friendly/Mid-range/Premium.  Each violated field has its own
\* key and no other key exists; the time and the budget message list every
\* accepted value; the food preferences, empty or not, add no key.
C16_ValidationPerField ==
    Validated =>
       LET keys == DOMAIN obs.errors
           areaOk == obs.area \in Range(context_cache.areas)
           timeOk == obs.time_preference \in AcceptedTimes
           budgetOk == obs.budget_category \in AcceptedBudgets
       IN /\ (keys = {}) <=> (areaOk /\ timeOk /\ budgetOk)
          /\ keys \subseteq {"area", "time_preference", "budget_category"}
          /\ ("area" \in keys) <=> ~areaOk
          /\ ("time_preference" \in keys) <=> ~timeOk
          /\ ("budget_category" \in keys) <=> ~budgetOk
          /\ ~timeOk => \A v \in AcceptedTimes : IsSubstr(v, obs.errors["time_preference"])
          /\ ~budgetOk => \A v \in AcceptedBudgets : IsSubstr(v, obs.errors["budget_category"])

\* an area that only differs in case from a known one, a time in lower case and
\* no food preference: the area and the time are reported, nothing else
C16_Witness ==
    /\ Validated
    /\ obs.area = <<"c", "p">>
    /\ obs.time_preference = <<"evening">>
    /\ obs.food_preferences = <<>>
    /\ obs.budget_category = <<"Premium">>
    /\ DOMAIN obs.errors = {"area", "time_preference"}

\* what the other entry points and get_recommendations do with the empty area
EmptyAreaElsewhere ==
    /\ obs.op = "simple_validate_user_input" => obs.errors # <<>>
    /\ obs.op = "app_validate_user_input" => ~obs.raised /\ obs.errors # <<>>
    /\ obs.op = "get_recommendations" =>
          /\ ~obs.raised
          /\ Len(obs.resp.recommendations) >= 1

\* C17 (as stated): for the empty area every validation entry point returns a
\* non-empty error set whatever the other fields are, the engine's mapping
\* holding an 'area' key, and get_recommendations called with the empty area
\* returns a response and does not raise.
C17_EmptyAreaHasAreaKey ==
    obs.op # "init" /\ obs.area = <<>> =>
       /\ obs.op = "validate_user_input" =>
             /\ DOMAIN obs.errors # {}
             /\ "area" \in DOMAIN obs.errors
       /\ EmptyAreaElsewhere

\* C17 (amended): as above, but the engine's mapping holds the 'area' key only
\* when the product document loads; when it cannot be loaded the mapping holds
\* the single key 'general' (with the loader's message) and no 'area' key.
C17_EmptyAreaRejected ==
    obs.op # "init" /\ obs.area = <<>> =>
       /\ obs.op = "validate_user_input" =>
             /\ DOMAIN obs.errors # {}
             /\ obs.loaded => "area" \in DOMAIN obs.errors
             /\ ~obs.loaded => DOMAIN obs.errors = {"general"}
       /\ EmptyAreaElsewhere

\* the engine's validator called with the empty area and otherwise valid fields
\* while the document cannot be loaded
C17_Witness ==
    /\ obs.op = "validate_user_input"
    /\ obs.area = <<>>
    /\ obs.time_preference = Evening
    /\ obs.budget_category = Budget
    /\ ~obs.loaded
    /\ DOMAIN obs.errors = {"general"}

\* two remembered calls of build_prompt were given equal arguments
SameArguments ==
    /\ obs.kept # NoCall
    /\ obs.last # NoCall
    /\ obs.kept.context = obs.last.context
    /\ obs.kept.user_query = obs.last.user_query

NoneInterpreted ==
    /\ obs.op = "get_recommendations"
    /\ obs.stage \in {"postprocess", "done"}
    /\ obs.gw.recommendations = <<>>

\* the foods the document lists for the area the query was resolved to
ListedFoods == FoodOptions(Context(file.content), obs.resolved)

\* C19: when the interpreted set has no recommendations, the engine returns
\* fallback recommendations for the query's (resolved) area: with foods listed
\* for it and a text time preference, min(3, number of listed foods) entries in
\* listing order, each with crowd_info "Popular during <time in lower case>";
\* with no food listed for it, exactly one generic recommendation naming the
\* area.
C19_FallbackFromFoodList ==
    NoneInterpreted =>
       LET recs == obs.resp.recommendations
           n == IF Len(ListedFoods) < 3 THEN Len(ListedFoods) ELSE 3
       IN /\ (ListedFoods # <<>> /\ IsStr(obs.time)) =>
                /\ ~obs.caught
                /\ Len(recs) = n
                /\ \A i \in 1..n :
                      /\ recs[i].food_name = ListedFoods[i].name
                      /\ recs[i].price_range = ListedFoods[i].price
                      /\ recs[i].crowd_info = <<"Popular during ">> \o Lower(obs.time)
          /\ ListedFoods = <<>> =>
                /\ ~obs.caught
                /\ Len(recs) = 1
                /\ recs[1].food_name = <<"Local Street Food">>
                /\ recs[1].location = obs.resolved \o <<" market area">>

\* an empty reply for an area with four listed foods: the first three come back
C19_Witness ==
    /\ NoneInterpreted
    /\ file.content = DocFoods
    /\ obs.area = <<" ">> \o Cp
    /\ obs.time = Evening
    /\ Len(ListedFoods) = 4
    /\ Len(obs.resp.recommendations) = 3
    /\ obs.resp.recommendations[3].food_name = <<"z">>

\* the defaults of the interpreter (kiro_client.py lines 243-248)
InterpreterDefault ==
    [food_name |-> <<"Unknown Food">>, location |-> <<"Location not specified">>,
     price_range |-> <<"Price varies">>, crowd_info |-> <<"Crowd info not available">>,
     local_tip |-> <<"No specific tips">>, hygiene_rating |-> <<"Yellow">>]

\* the service's reply was interpreted into recommendations and the engine
\* cleaned them
Revalidated ==
    /\ obs.op = "get_recommendations"
    /\ obs.called
    /\ ~obs.fellback
    /\ ~obs.caught
    /\ obs.trace # <<>>
    /\ obs.gw.recommendations # <<>>

\* C20 as stated: the engine's cleaning of a recommendation defaults like the
\* interpreter: every field that the reply's entry lacks or holds empty (null
\* or "") comes back as the interpreter's default for it: "Unknown Food",
\* "Location not specified", "Price varies", "Crowd info not available",
\* "No specific tips", "Yellow".
C20_SameDefaultsAsInterpreter ==
    Revalidated =>
       LET items == ObjectEntries(Last(obs.trace).reply)
       IN \A i \in 1..Len(items) : \A f \in DOMAIN InterpreterDefault :
             items[i][f] \in {Absent, None, <<>>}
                => obs.resp.recommendations[i][f] = InterpreterDefault[f]

\* the gateway interpreted a reply (or returned a cached interpretation) that
\* names no alternative area, and the engine answered with it
NoAlternativesInterpreted ==
    /\ obs.op = "get_recommendations"
    /\ ~obs.caught
    /\ ~obs.fellback
    /\ obs.stage = "done"
    /\ obs.gw.alternative_areas = <<>>

\* C21 as stated: whenever the interpreted reply has no alternative_areas, the
\* response of get_recommendations names as alternatives the first three of the
\* document's areas other than the current (resolved) area, in the order of the
\* document's area list.
C21_AlternativesFromDocument ==
    NoAlternativesInterpreted =>
       obs.resp.alternative_areas
          = FirstN(Without(Context(file.content).areas, obs.resolved), 3)

\* get_recommendations answered with a response the gateway interpreted or held
\* in its cache
AnsweredFromGateway ==
    /\ obs.op = "get_recommendations"
    /\ obs.stage = "done"
    /\ ~obs.caught
    /\ ~obs.fellback
    /\ obs.gw.recommendations # <<>>

\* C22 as stated: a response is made fresh for each request and never changed
\* after its construction: the object get_recommendations returns is not the
\* object held in the response cache (so no two requests share one), and the
\* cache entry still holds what the gateway interpreted and stored.
C22_FreshNeverMutated ==
    AnsweredFromGateway =>
       /\ ~obs.inplace
       /\ response_cache[GetCacheKey(obs.prompt)] = obs.gw

\* the interpreted object o after the whole post-processing
FullyProcessed(o) == PostProcessResponse(obs.orig[o], ConcQuery, context_cache).val

\* C23 as stated: under every interleaving of two callers with the same
\* uncached request, each caller sends at most its budget of attempts, each is
\* given a complete response, a caller that finds the cache entry sees it
\* either fully old (as interpreted) or fully new, never partly updated, and
\* when both are done the cache holds exactly one entry for the request whose
\* value is one of the two interpreted results.
C23_ConcurrentCallersSafe ==
    obs.op = "concurrent" =>
       /\ \A t \in Callers : obs.attempts[t] <= max_retries
       /\ \A t \in Callers :
             obs.pc[t] = "done" => obs.result[t].recommendations # <<>>
       /\ \A t \in Callers :
             obs.seen[t] # NoResponse
                => \E o \in Callers : obs.seen[t] \in {obs.orig[o], FullyProcessed(o)}
       /\ (\A t \in Callers : obs.pc[t] = "done") =>
             /\ DOMAIN response_cache = {GetCacheKey(PromptCp)}
             /\ \E o \in Callers :
                   /\ obs.orig[o] # NoResponse
                   /\ response_cache[GetCacheKey(PromptCp)] = obs.orig[o]

\* C24: every query of the gateway returns after a bounded effort: whatever the
\* service does on each attempt (429, timeout, connection error, another
\* status, an unreadable body, success), one query sends at most 3 requests,
\* waits at most 2 times, observes no more outcomes than it sent requests, and
\* returns a response instead of raising.
C24_QueryBounded ==
    obs.op = "query" =>
        /\ obs.attempts <= 3
        /\ Len(obs.sleeps) <= 2
        /\ obs.attempts > 0 => Len(obs.sleeps) < obs.attempts
        /\ Len(obs.trace) = obs.attempts
        /\ ~obs.raised
        /\ obs.resp # NoResponse

\* a rate limit, a timeout and a connection error in one query: three
\* requests, two waits, and the query returned
C24_Witness ==
    /\ obs.op = "query"
    /\ Len(obs.trace) = 3
    /\ obs.trace[1].kind = "s429"
    /\ obs.trace[2].kind = "timeout"
    /\ obs.trace[3].kind = "conn"
    /\ obs.attempts = 3
    /\ Len(obs.sleeps) = 2
    /\ ~obs.raised

\* the entries of the interpreted reply, and those of them that are objects
RepliedEntries == obs.raw.data.recommendations.items

RepliedObjects == SelectSeq(RepliedEntries, LAMBDA e : e.isobj)

\* C25: the interpreter drops every entry of `recommendations` that is no
\* object and raises nothing for it: the parsed recommendations are the
\* entries that are objects, one for one and in their order, and a reply whose
\* entries are all no objects parses to a response without recommendations.
C25_NonObjectsDropped ==
    obs.op = "parse_response" =>
       /\ ~obs.out.raised
       /\ Len(obs.out.val.recommendations) = Len(RepliedObjects)
       /\ \A i \in 1..Len(RepliedObjects) :
             /\ RepliedObjects[i].food_name # Absent
                   => obs.out.val.recommendations[i].food_name = RepliedObjects[i].food_name
             /\ RepliedObjects[i].food_name = Absent
                   => obs.out.val.recommendations[i].food_name = <<"Unknown Food">>
             /\ RepliedObjects[i].hygiene_rating # Absent
                   => obs.out.val.recommendations[i].hygiene_rating
                         = RepliedObjects[i].hygiene_rating
       /\ (\A i \in 1..Len(RepliedEntries) : ~RepliedEntries[i].isobj)
             => obs.out.val.recommendations = <<>>

\* an entry that is no object between two objects: two recommendations, in the
\* order of the objects
C25_Witness ==
    /\ obs.op = "parse_response"
    /\ Len(RepliedEntries) = 3
    /\ RepliedEntries[1].isobj
    /\ ~RepliedEntries[2].isobj
    /\ RepliedEntries[3].isobj
    /\ RepliedEntries[1].food_name = <<"Kulfi">>
    /\ RepliedEntries[3].food_name = <<"Chaat">>
    /\ ~obs.out.raised
    /\ Len(obs.out.val.recommendations) = 2
    /\ obs.out.val.recommendations[2].food_name = <<"Chaat">>

\* C26: SimpleRecommendationEngine.get_recommendations returns, for every area
\* (known or not) and whatever the other arguments, a mapping with the keys
\* 'recommendations' and 'local_context' that holds at least one
\* recommendation, whose 'area' is the requested area and whose
\* 'alternative_areas' are at most 3 areas, none of them the requested one.
C26_SimpleResponseShape ==
    obs.op = "simple_get_recommendations" =>
       /\ {"recommendations", "local_context"} \subseteq DOMAIN obs.resp
       /\ Len(obs.resp.recommendations) >= 1
       /\ obs.resp.area = obs.area
       /\ Len(obs.resp.alternative_areas) <= 3
       /\ \A i \in 1..Len(obs.resp.alternative_areas) :
             obs.resp.alternative_areas[i] # obs.area

\* a known area among more than three others: its three recommendations and
\* three alternatives
C26_Witness ==
    /\ obs.op = "simple_get_recommendations"
    /\ obs.area = Cp
    /\ obs.time_preference = Evening
    /\ Len(obs.resp.recommendations) = 3
    /\ Len(obs.resp.alternative_areas) = 3
    /\ Cp \notin Range(obs.resp.alternative_areas)

\* the query's request or its interpretation failed and the fallback came back
FellBack(o) == o.op = "query" /\ o.fellback /\ (o.sendFailed \/ o.parseFailed)

\* C27: a query that ends in the gateway's fallback leaves the response cache
\* as it was; no value of the cache is ever the fallback response (area
\* "Error"), each value a query adds is what it interpreted from a request that
\* succeeded; and the same query made again right after a fallback is no cache
\* hit and contacts the service again.
C27_FallbackNotCached ==
    [][ /\ FellBack(obs') => response_cache' = response_cache
        /\ \A k \in DOMAIN response_cache' :
              /\ ~IsFallback(response_cache'[k])
              /\ response_cache'[k].area # <<"Error">>
        /\ obs'.op = "query" =>
              \A k \in DOMAIN response_cache' \ DOMAIN response_cache :
                 /\ ~obs'.sendFailed /\ ~obs'.parseFailed /\ ~obs'.fellback
                 /\ k = GetCacheKey(obs'.prompt)
                 /\ response_cache'[k] = obs'.resp
                 /\ obs'.attempts >= 1 =>
                       /\ ~ParseResponse(Last(obs'.trace).reply).raised
                       /\ response_cache'[k] = ParseResponse(Last(obs'.trace).reply).val
        /\ (FellBack(obs) /\ obs'.op = "query" /\ obs'.prompt = obs.prompt)
              => /\ ~obs'.hit
                 /\ obs'.called
                 /\ obs'.attempts >= 1
      ]_vars

\* a query whose reply could not be interpreted, while the result of another
\* prompt stays stored and nothing is stored for this one
C27_Witness ==
    /\ FellBack(obs)
    /\ obs.parseFailed
    /\ DOMAIN response_cache # {}
    /\ GetCacheKey(obs.prompt) \notin DOMAIN response_cache
    /\ obs.attempts >= 1

\* the four handlers that read the document through _get_context
DocumentReaders ==
    {"get_recommendations", "get_areas_list", "get_area_info", "validate_user_input"}

\* what the handler observed in `o` answered is what document `ctx` gives
AnsweredFrom(o, ctx) ==
    LET ld == Loaded(FALSE, "", <<>>, ctx, ctx, NoTime, FALSE)
    IN CASE o.op = "get_areas_list" -> o.loaded /\ o.val = ctx.areas
         [] o.op = "get_area_info" ->
               /\ o.loaded
               /\ o.val.error = Absent
               /\ o.val.available = (o.area \in Range(ctx.areas))
               /\ o.val.food_options = FoodOptions(ctx, o.area)
         [] o.op = "validate_user_input" ->
               /\ o.loaded
               /\ o.errors = ValidateUserInput(o.area, o.time_preference, o.food_preferences,
                                               o.budget_category, ld)
         [] o.op = "get_recommendations" ->
               /\ ~(o.caught /\ o.stage = "context")
               /\ \E pa \in {ProcessAreaInput(o.area, ctx)} :
                     IF pa.raised THEN o.caught /\ o.stage = "area"
                     ELSE /\ o.resolved = pa.val
                          /\ \E bp \in {BuildPrompt(ctx, UserQuery(pa.val, o.time, Momos,
                                                                   Budget))} :
                                ~bp.raised => o.prompt = bp.val
         [] OTHER -> FALSE

\* C28: once the engine holds a document, each of get_recommendations,
\* get_areas_list, get_area_info and validate_user_input answers from that
\* document and leaves the engine's cache and the loader's fields (its
\* document and modification time) as they were, whatever happened to the
\* file; the engine's document changes only by refresh_context, which empties
\* the engine's document cache and the response cache; and a handler that
\* finds no document cached asks the loader, keeping what it returns and
\* keeping nothing when the load fails.
C28_DocumentKeptUntilRefresh ==
    [][ /\ (obs'.op \in DocumentReaders /\ context_cache # NoContext)
            => /\ context_cache' = context_cache
               /\ cached_context' = cached_context
               /\ file_modified_time' = file_modified_time
               /\ AnsweredFrom(obs', context_cache)
        /\ (context_cache # NoContext /\ context_cache' # context_cache)
            => obs'.op = "refresh_context"
        /\ obs'.op = "refresh_context"
            => context_cache' = NoContext /\ response_cache' = <<>>
        /\ (obs'.op \in DocumentReaders /\ context_cache = NoContext)
            => \E ld \in {LoadProductContext(file, cached_context, file_modified_time)} :
                  /\ context_cache' = ld.val
                  /\ ld.raised => context_cache' = NoContext
                  /\ ~ld.raised => AnsweredFrom(obs', ld.val)
                  /\ cached_context' = ld.cached
                  /\ file_modified_time' = ld.mtime
      ]_vars

\* a handler answered from the engine's document while the file, written
\* since, has another modification time and holds another document
C28_Witness ==
    /\ obs.op \in {"get_areas_list", "get_area_info", "validate_user_input"}
    /\ context_cache # NoContext
    /\ file.exists
    /\ file.mtime # file_modified_time
    /\ ~ParseContextFile(file.content).raised
    /\ ParseContextFile(file.content).val # context_cache
    /\ AnsweredFrom(obs, context_cache)

\* C29: a load that raises (no file, a blank file, a document failing the
\* validation) leaves the loader's cached document and modification time as
\* they were; either of the two changes only in a load that parsed the file
\* with success, which stores the parsed document together with the file's
\* modification time; and so the loader holds a time exactly when it holds a
\* document, and that document passes the validation.
C29_FailedLoadKeepsLoader ==
    [][ /\ (obs'.op = "load_product_context" /\ obs'.raised)
            => UNCHANGED <<cached_context, file_modified_time>>
        /\ (cached_context' # cached_context \/ file_modified_time' # file_modified_time)
            => /\ obs'.op = "load_product_context"
               /\ ~obs'.raised
               /\ obs'.parsed
               /\ file.exists
               /\ ~ParseContextFile(file.content).raised
               /\ cached_context' = ParseContextFile(file.content).val
               /\ file_modified_time' = file.mtime
        /\ (cached_context' = NoContext) <=> (file_modified_time' = NoTime)
        /\ cached_context' # NoContext
            => /\ ~IsBlank(cached_context'.raw)
               /\ ValidateContext(cached_context'.raw) = <<>>
      ]_vars

\* a reload of a changed file that failed while an earlier document is cached:
\* the loader still holds that document and the time it was read at
C29_Witness ==
    /\ obs.op = "load_product_context"
    /\ obs.raised
    /\ obs.parsed
    /\ file.exists
    /\ cached_context # NoContext
    /\ file_modified_time # NoTime
    /\ file_modified_time # file.mtime

\* ["Green", "Yellow", "Red"]
HygieneRatings == {<<"Green">>, <<"Yellow">>, <<"Red">>}

\* every recommendation of the response carries one of the three ratings
RatedWithin(resp) ==
    \A i \in 1..Len(resp.recommendations) :
       resp.recommendations[i].hygiene_rating \in HygieneRatings

\* C30: every recommendation of every response get_recommendations returns is
\* rated Green, Yellow or Red, whatever ratings the service's reply carried
\* (none, null, a number, an unknown word) and when the fallback or the error
\* response is returned; the response the gateway's query returned is changed
\* only where a rating is none of the three, which becomes Yellow.
C30_RatingsWithinThree ==
    obs.op = "get_recommendations" =>
       /\ ~obs.raised
       /\ Len(obs.resp.recommendations) >= 1
       /\ RatedWithin(obs.resp)
       /\ (obs.stage = "done" /\ obs.gw.recommendations # <<>>) =>
             /\ Len(obs.resp.recommendations) = Len(obs.gw.recommendations)
             /\ \A i \in 1..Len(obs.gw.recommendations) :
                   obs.resp.recommendations[i].hygiene_rating
                      = IF obs.gw.recommendations[i].hygiene_rating \in HygieneRatings
                        THEN obs.gw.recommendations[i].hygiene_rating
                        ELSE <<"Yellow">>

\* the gateway's query returned recommendations rated null, with a number and
\* with an unknown word, and the engine returned them rated within the three
C30_Witness ==
    /\ obs.op = "get_recommendations"
    /\ obs.stage = "done"
    /\ \E i, j, k \in 1..Len(obs.gw.recommendations) :
          /\ obs.gw.recommendations[i].hygiene_rating = None
          /\ obs.gw.recommendations[j].hygiene_rating = Number
          /\ obs.gw.recommendations[k].hygiene_rating = <<"green">>
    /\ RatedWithin(obs.resp)
    /\ \E i \in 1..Len(obs.resp.recommendations) :
          obs.resp.recommendations[i].hygiene_rating = <<"Red">>

====
